---- MODULE Spec2Model ----
(***************************************************************************)
(* A model of the authorization and permission boundary of smcllns/gmail:  *)
(*   - GmailOAuthFlow (src/src/gmail-oauth-flow.ts): the PKCE flow, in its *)
(*     interactive and manual transports;                                  *)
(*   - the CLI (src/src/cli.ts, lines 670-1298): command dispatch, the     *)
(*     restricted operations and the dangerous-label guard;                *)
(*   - GmailService (src/unnamed/part_001, lines 271-746): label calls,    *)
(*     and the client cache of one service object held by a program;       *)
(*   - AccountStorage (src/src/account-storage.ts): the accounts,          *)
(*     credentials and config files, their modes, one or two writers.      *)
(* Each part has its own specification over the shared variables.          *)
(***************************************************************************)
EXTENDS Integers, Sequences, FiniteSets, TLC

\* ------------------------------------------------------------------ bounds

\* authorize() calls made on one GmailOAuthFlow instance
MaxAttempts == 2
\* callbacks (requests to the listener, pasted URLs) the instance receives
MaxCallbacks == 3
\* labels given to --add in one "labels" command
MaxAdd == 2
\* thread ids given to one "labels" command
MaxThreads == 2
\* authorizations one GmailService object completes
MaxAuthorizations == 2
\* requests for a path other than "/" that reach the listener
MaxNotFound == 1
\* errors configured at once in one MockGmailService
MaxErrors == 2
\* calls of service methods one MockGmailService records before a reset
MaxMockCalls == 2

\* ------------------------------------------------------------ OAuth values

\* null / undefined: a field that holds nothing, a query parameter not given
Null == <<>>

\* the n-th value drawn from crypto.randomBytes: draws never repeat
Random(n) == <<"rnd", n>>

\* a state string the authorization server never issued for this flow
Forged == <<"forged">>

\* an authorization code the token endpoint does not know
BadCode == <<"badcode">>

\* the authorization code the server issues for attempt a's authorization URL
CodeOf(a) == <<"code", a>>

\* the refresh token the token endpoint issues when it redeems a code
RefreshTokenOf(code) == <<"refresh", code>>

\* the SHA-256 digest of a value, and the base64url text of a digest
sha256(value) == <<"sha256", value>>

base64Url(buffer) == <<"base64url", buffer>>

GMAIL_MODIFY_SCOPE == "https://www.googleapis.com/auth/gmail.modify"

GMAIL_LABELS_SCOPE == "https://www.googleapis.com/auth/gmail.labels"

GMAIL_READONLY_SCOPE == "https://www.googleapis.com/auth/gmail.readonly"

DEFAULT_GMAIL_SCOPES == {GMAIL_MODIFY_SCOPE, GMAIL_LABELS_SCOPE}

READONLY_GMAIL_SCOPES == {GMAIL_READONLY_SCOPE}

\* a GmailOAuthOptions argument: the properties it has, and their values
\* (a property it lacks is left at the value the constructor would default to)
GmailOAuthOptions(has, scopes, includeGrantedScopes, prompt) ==
    [has |-> has,
     scopes |-> IF "scopes" \in has THEN scopes ELSE DEFAULT_GMAIL_SCOPES,
     includeGrantedScopes |-> "includeGrantedScopes" \in has /\ includeGrantedScopes,
     prompt |-> IF "prompt" \in has THEN prompt ELSE ""]

\* no options argument, or {}
NoOptions == GmailOAuthOptions({}, {}, FALSE, "")

\* the options a caller may construct a flow with
OptionsGiven ==
    {GmailOAuthOptions(has, sc, igs, pr) :
        has \in SUBSET {"scopes", "includeGrantedScopes", "prompt"},
        sc \in {READONLY_GMAIL_SCOPES, DEFAULT_GMAIL_SCOPES},
        igs \in BOOLEAN,
        pr \in {"consent", "select_account"}}

VARIABLES
    \* GmailOAuthFlow
    options,        \* the options the flow was constructed with
    pc,             \* where authorize() stands
    manual,         \* the transport of the current attempt
    attempt,        \* authorize() calls so far on this instance
    server,         \* this.server: {} for null, or {a}, created by attempt a
    listeners,      \* http servers created and not closed, by attempt
    timeoutId,      \* this.timeoutId: {} for null, or {a}, armed by attempt a
    timers,         \* timers armed and neither fired nor cleared
    expectedState,  \* this.expectedState
    codeVerifier,   \* this.codeVerifier
    rnd,            \* values drawn from crypto.randomBytes so far
    sessions,       \* per attempt, the state and verifier it generated
    inflight,       \* getToken calls awaiting the token endpoint
    results,        \* per attempt, what authorize() settled with
    nCallbacks,     \* callbacks handled so far
    tokenCalls,     \* per attempt, the requests sent to the token endpoint
    lastCb,         \* the last callback handled and what was decided for it
    notFound,       \* requests the listener answered with status 404
    \* the account store and one CLI process
    accounts,       \* per email: registered or not, and the recorded scopes
    defaultAccount, \* config.defaultAccount, NoEmail when not set
    cliPc,          \* "shell": no process running; "exited": one has ended
    argv,           \* the command line of the process
    exitCode,       \* its exit status
    report,         \* what it printed: the kind of message, the labels named
    calls,          \* the service and Gmail API calls it made, in order
    \* AccountStorage and the files of its config directory
    fs,             \* per path: the file there, missing or with its text
    configDir,      \* the config directory, missing or with its mode
    storePc,        \* per process, where its AccountStorage stands
    storeAccounts,  \* per process, this.accounts, the Map, as its entries in order
    job,            \* per process, the writeJsonFileAtomic call under way
    ret,            \* what the last read or config operation gave back
    committed,      \* what the last write of the accounts file whose rename
                    \* completed wrote
    \* one GmailService object held by a program
    serviceOptions, \* whether it was constructed, and with accounts given
    gmailClients,   \* this.gmailClients: per email, the cached client, as the
                    \* token bundle it was built from ({} when none)
    lastClient,     \* the client the last remote operation used
    dropped,        \* per email, whether a cached client was ever dropped
    authorizations, \* authorizations completed, each with a new refresh token
    \* one MockGmailService object held by a test
    mockThreads,    \* this.threads: the ids of the threads set up
    searchResults,  \* this.searchResults: the queries with results set up
    mockLabels,     \* this.labels, in order
    mockErrors,     \* this.errors, in order
    nextLabelId,    \* this.nextLabelId
    mockCalls,      \* this.calls: per method, the arguments recorded
    mockRet,        \* what the last call of a service method gave back
    lastSet,        \* per method, how the most recent setError for it stands
    alone           \* per method, whether no other error was configured for
                    \* it when that setError was made

flowVars == <<options, pc, manual, attempt, server, listeners, timeoutId, timers,
              expectedState, codeVerifier, rnd, sessions, inflight, results,
              nCallbacks, tokenCalls, lastCb, notFound>>

cliVars == <<accounts, defaultAccount, cliPc, argv, exitCode, report, calls>>

storeVars == <<fs, configDir, storePc, storeAccounts, job, ret, committed>>

svcVars == <<serviceOptions, gmailClients, lastClient, dropped, authorizations>>

mockVars == <<mockThreads, searchResults, mockLabels, mockErrors, nextLabelId,
              mockCalls, mockRet, lastSet, alone>>

vars == <<flowVars, cliVars, storeVars, svcVars, mockVars>>

Attempts == 1..MaxAttempts

Pending == [settled |-> FALSE]

\* ------------------------------------------------------- GmailOAuthFlow

\* isValidState with the check skipped when the callback gives no state
isValidStateUnlessAbsent(state, expected) ==
    state = Null \/ state = expected

\* isValidState: Boolean(state && this.expectedState && state === this.expectedState)
isValidState(state, expected) ==
    /\ state # Null
    /\ expected # Null
    /\ state = expected

\* the constructor: this.scopes = options?.scopes ?? DEFAULT_GMAIL_SCOPES
scopesOf(opts) ==
    IF "scopes" \in opts.has THEN opts.scopes ELSE DEFAULT_GMAIL_SCOPES

\* the constructor with include_granted_scopes on unless switched off
includeGrantedScopesByDefault(opts) ==
    IF "includeGrantedScopes" \in opts.has THEN opts.includeGrantedScopes ELSE TRUE

\* the constructor: this.includeGrantedScopes = options?.includeGrantedScopes ?? false
includeGrantedScopesOf(opts) ==
    IF "includeGrantedScopes" \in opts.has THEN opts.includeGrantedScopes ELSE FALSE

\* the constructor: this.prompt = options?.prompt ("" when there is none)
promptOf(opts) == IF "prompt" \in opts.has THEN opts.prompt ELSE ""

\* oauth2Client.generateAuthUrl({...}): the parameters of the URL; prompt is
\* there only when this.prompt is set
AuthUrl(state, verifier) ==
    [access_type |-> "offline",
     scope |-> scopesOf(options),
     state |-> state,
     include_granted_scopes |-> includeGrantedScopesOf(options),
     code_challenge |-> base64Url(sha256(verifier)),
     code_challenge_method |-> "S256",
     prompt |-> IF promptOf(options) # "" THEN {promptOf(options)} ELSE {}]

\* authorize() without the "No refresh token received" check
AuthorizeOutcomeUnchecked(r) ==
    IF ~r.success
        THEN [settled |-> TRUE, returned |-> FALSE, refreshToken |-> Null,
              error |-> r.error, via |-> r.via, result |-> r]
    ELSE [settled |-> TRUE, returned |-> TRUE, refreshToken |-> r.refreshToken,
          error |-> "", via |-> r.via, result |-> r]

\* authorize(): the AuthResult turned into a return value or a thrown error
AuthorizeOutcome(r) ==
    IF ~r.success
        THEN [settled |-> TRUE, returned |-> FALSE, refreshToken |-> Null,
              error |-> r.error, via |-> r.via, result |-> r]
    ELSE IF r.refreshToken = Null
        THEN [settled |-> TRUE, returned |-> FALSE, refreshToken |-> Null,
              error |-> "No refresh token received", via |-> r.via,
              result |-> r]
    ELSE [settled |-> TRUE, returned |-> TRUE, refreshToken |-> r.refreshToken,
          error |-> "", via |-> r.via, result |-> r]

Failure(msg, via) ==
    [success |-> FALSE, refreshToken |-> Null, error |-> msg, via |-> via]

Success(token, via) ==
    [success |-> TRUE, refreshToken |-> token, error |-> "", via |-> via]

\* a promise that takes the result of the last resolve call
ResolvedByLast(a, r) == [results EXCEPT ![a] = AuthorizeOutcome(r)]

\* resolve(result) of attempt a's promise: the first call settles authorize(),
\* any later call does nothing
Resolved(a, r) ==
    IF results[a].settled THEN results
    ELSE [results EXCEPT ![a] = AuthorizeOutcome(r)]

\* cleanup(), run while the timers in `armed` are pending: cancel the timer,
\* close the listener, forget state and verifier
cleanup(armed) ==
    /\ timers' = armed \ timeoutId
    /\ timeoutId' = {}
    /\ listeners' = listeners \ server
    /\ server' = {}
    /\ expectedState' = Null
    /\ codeVerifier' = Null

\* generateAuthUrl() that keeps a state and verifier the fields still hold
generateAuthUrlKeeping(a) ==
    /\ expectedState' = IF expectedState # Null THEN expectedState
                        ELSE Random(rnd + 1)
    /\ codeVerifier' = IF codeVerifier # Null THEN codeVerifier
                       ELSE Random(rnd + 2)
    /\ rnd' = rnd + 2
    /\ sessions' = [sessions EXCEPT
                        ![a] = [state |-> expectedState', verifier |-> codeVerifier',
                                url |-> AuthUrl(expectedState', codeVerifier')]]

\* generateAuthUrl() in attempt a: two fresh random values, kept in the fields
generateAuthUrl(a) ==
    /\ expectedState' = Random(rnd + 1)
    /\ codeVerifier' = Random(rnd + 2)
    /\ rnd' = rnd + 2
    /\ sessions' = [sessions EXCEPT
                        ![a] = [state |-> expectedState', verifier |-> codeVerifier',
                                url |-> AuthUrl(expectedState', codeVerifier')]]

\* the query of a callback: what the browser, or anyone else, may send
\* (no code, an unknown code, the code issued for this attempt; no state, a
\* forged state, the state of this attempt or of the one before it)
CallbackQueries ==
    [error : BOOLEAN,
     code  : {Null, BadCode, CodeOf(attempt)},
     state : {Null, Forged}
             \cup {sessions[a].state : a \in (1..attempt) \cap {attempt - 1, attempt}}]

\* where a result came from: a callback (with the state it carried), the
\* timer or the listener
Via(src, state) == [src |-> src, state |-> state]

\* handleCallback without the "No authorization code" check
handleCallbackVerdictNoCodeCheck(q, expected, verifier) ==
    IF q.error THEN "access_denied"
    ELSE IF ~isValidState(q.state, expected) THEN "OAuth state mismatch"
    ELSE IF verifier = Null THEN "Missing PKCE verifier"
    ELSE "exchange"

\* handleCallback(query, res, resolve), up to its await: the checks in order
handleCallbackVerdict(q, expected, verifier) ==
    IF q.error THEN "access_denied"
    ELSE IF q.code = Null THEN "No authorization code"
    ELSE IF ~isValidState(q.state, expected) THEN "OAuth state mismatch"
    ELSE IF verifier = Null THEN "Missing PKCE verifier"
    ELSE "exchange"

\* the rl.question callback of startManualFlow, up to its await
startManualFlowVerdict(q, expected, verifier) ==
    IF q.code = Null THEN "No authorization code found in URL"
    ELSE IF ~isValidState(q.state, expected) THEN "OAuth state mismatch"
    ELSE IF verifier = Null THEN "Missing PKCE verifier"
    ELSE "exchange"

\* oauth2Client.getToken({code, codeVerifier}): what the token endpoint may
\* answer. It redeems a code only with the verifier whose challenge was in
\* the authorization URL the code was issued for; a grant may lack a refresh
\* token; any call may fail.
getTokenResponses(code, verifier) ==
    {[ok |-> FALSE, refresh_token |-> Null]}
    \cup IF \E a \in 1..attempt : code = CodeOf(a) /\ sessions[a].verifier = verifier
         THEN {[ok |-> TRUE, refresh_token |-> RefreshTokenOf(code)],
               [ok |-> TRUE, refresh_token |-> Null]}
         ELSE {}

\* authorize(manual): a new attempt. Manual: startManualFlow builds the URL
\* and prompts. Interactive: startAuthFlow creates the server and calls listen.
authorize(m) ==
    /\ pc \in {"idle", "settled"}
    /\ attempt < MaxAttempts
    /\ attempt' = attempt + 1
    /\ manual' = m
    /\ IF m
       THEN /\ generateAuthUrl(attempt + 1)
            /\ pc' = "prompt"
            /\ UNCHANGED <<server, listeners>>
       ELSE /\ server' = {attempt + 1}
            /\ listeners' = listeners \cup {attempt + 1}
            /\ pc' = "binding"
            /\ UNCHANGED <<expectedState, codeVerifier, rnd, sessions>>
    /\ UNCHANGED <<timeoutId, timers, inflight, results, nCallbacks,
                   tokenCalls, lastCb>>
    /\ UNCHANGED <<options, notFound, cliVars, storeVars, svcVars, mockVars>>

\* the listen callback of startAuthFlow: the URL is built and the timer armed
listening ==
    /\ pc = "binding"
    /\ server = {attempt}
    /\ generateAuthUrl(attempt)
    /\ timeoutId' = {attempt}
    /\ timers' = timers \cup {attempt}
    /\ pc' = "waiting"
    /\ UNCHANGED <<manual, attempt, server, listeners, inflight, results,
                   nCallbacks, tokenCalls, lastCb>>
    /\ UNCHANGED <<options, notFound, cliVars, storeVars, svcVars, mockVars>>

\* the setTimeout callback of attempt a
timeout(a) ==
    /\ a \in timers
    /\ cleanup(timers \ {a})
    /\ results' = Resolved(a, Failure("Authorization timed out", Via("timeout", Null)))
    /\ pc' = IF a = attempt THEN "settled" ELSE pc
    /\ UNCHANGED <<manual, attempt, rnd, sessions, inflight, nCallbacks,
                   tokenCalls, lastCb>>
    /\ UNCHANGED <<options, notFound, cliVars, storeVars, svcVars, mockVars>>

\* the server's "error" event
serverError ==
    /\ pc \in {"binding", "waiting"}
    /\ server = {attempt}
    /\ cleanup(timers)
    /\ results' = Resolved(attempt, Failure("listen error", Via("listener", Null)))
    /\ pc' = "settled"
    /\ UNCHANGED <<manual, attempt, rnd, sessions, inflight, nCallbacks,
                   tokenCalls, lastCb>>
    /\ UNCHANGED <<options, notFound, cliVars, storeVars, svcVars, mockVars>>

\* the paths a browser asks the listener for besides the redirect
OtherPaths == {"/favicon.ico"}

\* a request handler that takes every request for the redirect
isCallbackPathAny(pathname) == TRUE

\* the request handler's test: parsed.pathname === "/"
isCallbackPath(pathname) == pathname = "/"

\* a request for "/" reaches the listener: handleCallback(query, res, resolve)
\* runs up to its first await or its return
handleCallback(q) ==
    LET verdict == handleCallbackVerdict(q, expectedState, codeVerifier) IN
    /\ pc = "waiting"
    /\ attempt \in listeners
    /\ nCallbacks < MaxCallbacks
    /\ nCallbacks' = nCallbacks + 1
    /\ lastCb' = [att |-> attempt, manual |-> FALSE, query |-> q,
                  expected |-> expectedState, verdict |-> verdict]
    /\ IF verdict = "exchange"
       THEN /\ inflight' = inflight \cup
                    {[att |-> attempt, manual |-> FALSE, n |-> nCallbacks + 1,
                      query |-> q, codeVerifier |-> codeVerifier]}
            /\ tokenCalls' = [tokenCalls EXCEPT ![attempt] = @ + 1]
            /\ UNCHANGED <<pc, server, listeners, timeoutId, timers,
                           expectedState, codeVerifier, results>>
       ELSE /\ cleanup(timers)
            /\ results' = Resolved(attempt, Failure(verdict, Via("callback", q.state)))
            /\ pc' = "settled"
            /\ UNCHANGED <<inflight, tokenCalls>>
    /\ UNCHANGED <<manual, attempt, rnd, sessions>>
    /\ UNCHANGED <<options, notFound, cliVars, storeVars, svcVars, mockVars>>

\* a request reaches the listener: the handler given to http.createServer
\* hands a request for "/" to handleCallback and answers any other with 404
request(pathname, q) ==
    IF isCallbackPath(pathname)
    THEN handleCallback(q)
    ELSE /\ listeners # {}
         /\ notFound < MaxNotFound
         /\ notFound' = notFound + 1
         /\ UNCHANGED <<pc, manual, attempt, server, listeners, timeoutId, timers,
                        expectedState, codeVerifier, rnd, sessions, inflight,
                        results, nCallbacks, tokenCalls, lastCb>>
         /\ UNCHANGED <<options, cliVars, storeVars, svcVars, mockVars>>

\* the pasted redirect URL arrives: the rl.question callback of
\* startManualFlow runs up to its await or its return
pasteRedirectUrl(q) ==
    LET verdict == startManualFlowVerdict(q, expectedState, codeVerifier) IN
    /\ pc = "prompt"
    /\ nCallbacks < MaxCallbacks
    /\ nCallbacks' = nCallbacks + 1
    /\ lastCb' = [att |-> attempt, manual |-> TRUE, query |-> q,
                  expected |-> expectedState, verdict |-> verdict]
    /\ IF verdict = "exchange"
       THEN /\ inflight' = inflight \cup
                    {[att |-> attempt, manual |-> TRUE, n |-> nCallbacks + 1,
                      query |-> q, codeVerifier |-> codeVerifier]}
            /\ tokenCalls' = [tokenCalls EXCEPT ![attempt] = @ + 1]
            /\ pc' = "exchanging"
            /\ UNCHANGED results
       ELSE /\ results' = Resolved(attempt, Failure(verdict, Via("callback", q.state)))
            /\ pc' = "settled"
            /\ UNCHANGED <<inflight, tokenCalls>>
    /\ UNCHANGED <<manual, attempt, server, listeners, timeoutId, timers,
                   expectedState, codeVerifier, rnd, sessions>>
    /\ UNCHANGED <<options, notFound, cliVars, storeVars, svcVars, mockVars>>

\* getToken of the call x returns or throws: the rest of handleCallback
\* (cleanup, then resolve), or of the rl.question callback (resolve alone)
getTokenSettles(x, resp) ==
    LET r == IF resp.ok
             THEN Success(resp.refresh_token, Via("callback", x.query.state))
             ELSE Failure("invalid_grant", Via("callback", x.query.state)) IN
    /\ x \in inflight
    /\ resp \in getTokenResponses(x.query.code, x.codeVerifier)
    /\ inflight' = inflight \ {x}
    /\ IF x.manual
       THEN UNCHANGED <<server, listeners, timeoutId, timers,
                        expectedState, codeVerifier>>
       ELSE cleanup(timers)
    /\ results' = Resolved(x.att, r)
    /\ pc' = IF x.att = attempt /\ ~results[x.att].settled THEN "settled" ELSE pc
    /\ UNCHANGED <<manual, attempt, rnd, sessions, nCallbacks, tokenCalls, lastCb>>
    /\ UNCHANGED <<options, notFound, cliVars, storeVars, svcVars, mockVars>>

\* ------------------------------------------------------- strings and labels

\* A string, as far as case and surrounding blanks go: its letters folded to
\* one case, how they are cased, and whether blanks surround it.
\* Str("trash", "upper", TRUE) is " TRASH".
Str(text, casing, pad) == [text |-> text, casing |-> casing, pad |-> pad]

toLowerCase(s) == [s EXCEPT !.casing = "lower"]

toUpperCase(s) == [s EXCEPT !.casing = "upper"]

trim(s) == [s EXCEPT !.pad = FALSE]

\* labels.map((l) => l.trim())
trimAll(labels) == [i \in 1..Len(labels) |-> trim(labels[i])]

\* no e-mail address: null, undefined or the empty string
NoEmail == ""

Emails == {"a@example.com", "b@example.com"}

\* the account records a store may hold for one e-mail: none, one without
\* recorded scopes, a read-only one, a live one
AccountStates ==
    {[registered |-> FALSE, scopes |-> {}],
     [registered |-> TRUE, scopes |-> {}],
     [registered |-> TRUE, scopes |-> READONLY_GMAIL_SCOPES],
     [registered |-> TRUE, scopes |-> DEFAULT_GMAIL_SCOPES]}

DANGEROUS_LABELS == {Str("trash", "upper", FALSE), Str("spam", "upper", FALSE)}

\* the labels of a mailbox, as users.labels.list returns them
GmailLabels ==
    {[id |-> Str("trash", "upper", FALSE), name |-> Str("trash", "upper", FALSE)],
     [id |-> Str("spam", "upper", FALSE), name |-> Str("spam", "upper", FALSE)],
     [id |-> Str("label_1", "mixed", FALSE), name |-> Str("work", "mixed", FALSE)]}

\* what a user may write in --add: "TRASH", " trash", "Spam", "Work",
\* "Label_1" (the id of Work) and "Nope" (no such label)
RequestedLabels ==
    {Str("trash", "upper", FALSE), Str("trash", "lower", TRUE),
     Str("spam", "mixed", FALSE), Str("work", "mixed", FALSE),
     Str("label_1", "mixed", FALSE), Str("nope", "mixed", FALSE)}

\* what a user may write in --remove: nothing, "TRASH" or "SPAM"
RemoveLists ==
    {<<>>, <<Str("trash", "upper", FALSE)>>, <<Str("spam", "upper", FALSE)>>}

\* sequences over S of length lo..hi
SeqsOf(S, lo, hi) == UNION {[1..n -> S] : n \in lo..hi}

\* ------------------------------------------------------------ GmailService

\* getLabelMap(email): the two Maps built from listLabels
nameToId ==
    [k \in {toLowerCase(l.name) : l \in GmailLabels} |->
        (CHOOSE l \in GmailLabels : toLowerCase(l.name) = k).id]

idToName ==
    [k \in {l.id : l \in GmailLabels} |->
        (CHOOSE l \in GmailLabels : l.id = k).name]

\* resolveLabelIds without the toLowerCase(): nameToId.get(l) || l
resolveLabelIdsCaseSensitive(labels, map) ==
    [i \in 1..Len(labels) |->
        IF labels[i] \in DOMAIN map THEN map[labels[i]] ELSE labels[i]]

\* resolveLabelIds(labels, nameToId): nameToId.get(l.toLowerCase()) || l
resolveLabelIds(labels, map) ==
    [i \in 1..Len(labels) |->
        IF toLowerCase(labels[i]) \in DOMAIN map
        THEN map[toLowerCase(labels[i])] ELSE labels[i]]

\* one call: of a GmailService method by the CLI (to = "service"), or of the
\* Gmail API by GmailService (to = "gmail")
Call(to, op, thread, add, remove) ==
    [to |-> to, op |-> op, thread |-> thread, add |-> add, remove |-> remove]

\* what a command did: the exit status, what it printed, the calls it made
Outcome(code, kind, labels, res, cs) ==
    [exitCode |-> code,
     report |-> [kind |-> kind, labels |-> labels, results |-> res],
     calls |-> cs]

\* error(msg): console.error and process.exit(1)
error(kind, labels, cs) == Outcome(1, kind, labels, <<>>, cs)

\* getGmailClient(email) finds the account (it throws "not found" otherwise)
hasGmailClient(email) == email \in Emails /\ accounts[email].registered

\* the users.threads.modify calls modifyLabels makes for thread t, which the
\* API fails when t is in fails
RECURSIVE modifyLabelsFrom(_, _, _, _, _)
modifyLabelsFrom(t, n, add, remove, fails) ==
    IF t > n THEN [calls |-> <<>>, results |-> <<>>]
    ELSE LET first == IF add # <<>>
                      THEN <<Call("gmail", "threads.modify", t, add, <<>>)>>
                      ELSE <<>>
             second == IF remove # <<>>
                       THEN <<Call("gmail", "threads.modify", t, <<>>, remove)>>
                       ELSE <<>>
             made == IF t \in fails /\ first \o second # <<>>
                     THEN <<(first \o second)[1]>>
                     ELSE first \o second
             ok == ~(t \in fails /\ first \o second # <<>>)
             rest == modifyLabelsFrom(t + 1, n, add, remove, fails)
         IN [calls |-> made \o rest.calls,
             results |-> <<[threadId |-> t, success |-> ok,
                            error |-> IF ok THEN "" ELSE "remote error"]>>
                         \o rest.results]

\* modifyLabels that gives up at the first thread the API fails
modifyLabelsAborting(email, n, add, remove, fails) ==
    LET failing == {t \in 1..n : t \in fails /\ (add # <<>> \/ remove # <<>>)}
        last == IF failing = {} THEN n
                ELSE CHOOSE t \in failing : \A u \in failing : t <= u
    IN modifyLabelsFrom(1, last, add, remove, fails)

\* GmailService.modifyLabels(email, threadIds, addLabels, removeLabels), for
\* an account getGmailClient finds: one result per thread, in order
modifyLabels(email, n, add, remove, fails) ==
    modifyLabelsFrom(1, n, add, remove, fails)

\* GmailService.createLabel(email, name, options), for an account
\* getGmailClient finds: the colours are validated, then labels.create is called
createLabel(email, color) ==
    IF color = "invalid"
    THEN [threw |-> TRUE, calls |-> <<>>]
    ELSE [threw |-> FALSE,
          calls |-> <<Call("gmail", "labels.create", 0, <<>>, <<>>)>>]

\* new GmailOAuthFlow(clientId, clientSecret, options) and authorize(manual)
FlowCall(opts, isManual) ==
    [to |-> "flow", op |-> "authorize", options |-> opts, manual |-> isManual]

\* a GmailService method called with an options argument
ServiceCall(op, email, opts) ==
    [to |-> "service", op |-> op, email |-> email, options |-> opts]

\* no account record for an e-mail
Unregistered == [registered |-> FALSE, scopes |-> {}]

\* what a GmailService account method did: thrown or not, the calls it made,
\* and the account store it leaves
Done(threw, msg, cs, store) ==
    [threw |-> threw, error |-> msg, calls |-> cs, accounts |-> store]

\* addGmailAccount that does not look for the e-mail in the store first
addGmailAccountUnchecked(email, isManual, authorized) ==
    IF ~authorized
    THEN Done(TRUE, "Authorization failed", <<FlowCall(NoOptions, isManual)>>, accounts)
    ELSE Done(FALSE, "", <<FlowCall(NoOptions, isManual)>>,
              [accounts EXCEPT ![email] = [registered |-> TRUE, scopes |-> {}]])

\* addGmailAccount that looks for the e-mail only once authorize() is back
addGmailAccountCheckingLate(email, isManual, authorized) ==
    IF ~authorized
    THEN Done(TRUE, "Authorization failed", <<FlowCall(NoOptions, isManual)>>, accounts)
    ELSE IF accounts[email].registered
    THEN Done(TRUE, "already exists", <<FlowCall(NoOptions, isManual)>>, accounts)
    ELSE Done(FALSE, "", <<FlowCall(NoOptions, isManual)>>,
              [accounts EXCEPT ![email] = [registered |-> TRUE, scopes |-> {}]])

\* addGmailAccount that stores the record before authorize() is back
addGmailAccountStoringFirst(email, isManual, authorized) ==
    IF accounts[email].registered
    THEN Done(TRUE, "already exists", <<>>, accounts)
    ELSE Done(~authorized, IF authorized THEN "" ELSE "Authorization failed",
              <<FlowCall(NoOptions, isManual)>>,
              [accounts EXCEPT ![email] = [registered |-> TRUE, scopes |-> {}]])

\* GmailService.addGmailAccount(email, clientId, clientSecret, manual): it has
\* no options parameter; the flow is constructed without options and the
\* record it stores has no scopes. authorized: authorize() returns a token.
addGmailAccount(email, isManual, authorized) ==
    IF accounts[email].registered
    THEN Done(TRUE, "already exists", <<>>, accounts)
    ELSE IF ~authorized
    THEN Done(TRUE, "Authorization failed", <<FlowCall(NoOptions, isManual)>>, accounts)
    ELSE Done(FALSE, "", <<FlowCall(NoOptions, isManual)>>,
              [accounts EXCEPT ![email] = [registered |-> TRUE, scopes |-> {}]])

\* GmailService.updateGmailAccount(email, clientId, clientSecret, manual,
\* options): the flow is run again with the options, and on success the
\* record's scope list and tokens are replaced
updateGmailAccount(email, isManual, opts, authorized) ==
    IF ~accounts[email].registered
    THEN Done(TRUE, "not found", <<>>, accounts)
    ELSE IF ~authorized
    THEN Done(TRUE, "Authorization failed", <<FlowCall(opts, isManual)>>, accounts)
    ELSE Done(FALSE, "", <<FlowCall(opts, isManual)>>,
              [accounts EXCEPT ![email] = [registered |-> TRUE, scopes |-> scopesOf(opts)]])

\* GmailService.deleteAccount(email): the client and the record are dropped;
\* true when there was a record
serviceDeleteAccount(email) ==
    [deleted |-> accounts[email].registered,
     accounts |-> [accounts EXCEPT ![email] = Unregistered]]

\* listAccounts(): the e-mails that have a record
listAccounts(store) == {e \in Emails : store[e].registered}

\* --------------------------------------------------------------------- CLI

\* getAccount(args): --account <email> if given, else the default account
getAccount(flag) ==
    IF flag # NoEmail THEN [ok |-> TRUE, account |-> flag]
    ELSE IF defaultAccount = NoEmail THEN [ok |-> FALSE, account |-> NoEmail]
    ELSE [ok |-> TRUE, account |-> defaultAccount]

\* the guard without the toUpperCase(): only "TRASH" and "SPAM" as written
dangerousRequestedCaseSensitive(add) ==
    SelectSeq(trimAll(add), LAMBDA l : l \in DANGEROUS_LABELS)

\* the dangerous-label guard of handleLabels: the requested labels, trimmed
\* and without empty ones, that are in DANGEROUS_LABELS once upper-cased
dangerousRequested(add) ==
    SelectSeq(trimAll(add), LAMBDA l : toUpperCase(l) \in DANGEROUS_LABELS)

\* the labels of --add that are neither a name nor an id of the mailbox
missingRequested(add) ==
    SelectSeq(add, LAMBDA l : /\ toLowerCase(l) \notin DOMAIN nameToId
                              /\ l \notin DOMAIN idToName)

\* handleLabels with a guard that looks at the labels of --remove as well
handleLabelsGuardingRemove(account, a) ==
    LET list == <<Call("service", "getLabelMap", 0, <<>>, <<>>)>>
        listed == list \o <<Call("gmail", "labels.list", 0, <<>>, <<>>)>>
        dangerous == dangerousRequested(a.add \o a.remove)
        missing == missingRequested(a.add)
        addLabels == resolveLabelIds(a.add, nameToId)
        removeLabels == resolveLabelIds(a.remove, nameToId)
        done == modifyLabels(account, a.threads, addLabels, removeLabels, a.fails)
    IN  IF ~hasGmailClient(account) THEN error("Account not found", <<>>, list)
        ELSE IF ~a.allow /\ dangerous # <<>>
            THEN error("Refusing to add label(s)", dangerous, listed)
        ELSE IF a.add # <<>> /\ missing # <<>>
            THEN error("Label(s) not found", missing, listed)
        ELSE Outcome(0, "results", <<>>, done.results,
                     listed
                     \o <<Call("service", "modifyLabels", a.threads,
                               addLabels, removeLabels)>>
                     \o done.calls)

\* handleLabels(account, args) for "labels <threadIds...> [--add] [--remove]
\* [--allow-dangerous-labels]"
handleLabels(account, a) ==
    LET list == <<Call("service", "getLabelMap", 0, <<>>, <<>>)>>
        listed == list \o <<Call("gmail", "labels.list", 0, <<>>, <<>>)>>
        dangerous == dangerousRequested(a.add)
        missing == missingRequested(a.add)
        addLabels == resolveLabelIds(a.add, nameToId)
        removeLabels == resolveLabelIds(a.remove, nameToId)
        done == modifyLabels(account, a.threads, addLabels, removeLabels, a.fails)
    IN  IF ~hasGmailClient(account) THEN error("Account not found", <<>>, list)
        ELSE IF a.add # <<>> /\ ~a.allow /\ dangerous # <<>>
            THEN error("Refusing to add label(s)", dangerous, listed)
        ELSE IF a.add # <<>> /\ missing # <<>>
            THEN error("Label(s) not found", missing, listed)
        ELSE Outcome(0, "results", <<>>, done.results,
                     listed
                     \o <<Call("service", "modifyLabels", a.threads,
                               addLabels, removeLabels)>>
                     \o done.calls)

\* handleLabels(account, args) for "labels create <name> [--text] [--bg]"
handleLabelsCreate(account, a) ==
    LET called == <<Call("service", "createLabel", 0, <<>>, <<>>)>>
        made == createLabel(account, a.color)
    IN  IF ~hasGmailClient(account) THEN error("Account not found", <<>>, called)
        ELSE IF made.threw THEN error("Invalid color", <<>>, called)
        ELSE IF a.remoteFails THEN error("remote error", <<>>, called \o made.calls)
        ELSE Outcome(0, "Created label", <<>>, <<>>, called \o made.calls)

\* handleRestrictedSend / handleRestrictedDelete throw a
\* RestrictedOperationError, which main catches: process.exit(2)
handleRestricted(command) ==
    Outcome(2, "RESTRICTED", <<>>, <<>>, <<>>)

\* main(), for the commands that use account resolution
main(a) ==
    LET got == getAccount(a.account) IN
    IF ~got.ok THEN error("No default account configured", <<>>, <<>>)
    ELSE CASE a.command = "labels" -> handleLabels(got.account, a)
           [] a.command = "labels create" -> handleLabelsCreate(got.account, a)
           [] a.command \in {"send", "delete"} -> handleRestricted(a.command)
           [] a.command = "url" -> Outcome(0, "urls", <<>>, <<>>, <<>>)
           [] OTHER -> error("Unknown command", <<>>, <<>>)

\* a command line: every field a command does not read is left at its default
Argv(account, command, threads, add, remove, allow, fails, remoteFails, color) ==
    [account |-> account, command |-> command, threads |-> threads,
     add |-> add, remove |-> remove, allow |-> allow, fails |-> fails,
     remoteFails |-> remoteFails, color |-> color]

\* one process runs main() on the command line a and exits
run(a) ==
    /\ argv' = a
    /\ exitCode' = main(a).exitCode
    /\ report' = main(a).report
    /\ calls' = main(a).calls
    /\ cliPc' = "exited"
    /\ UNCHANGED <<accounts, defaultAccount>>
    /\ UNCHANGED <<flowVars, storeVars, svcVars, mockVars>>

\* gmail [--account e] send | delete
runRestricted ==
    /\ cliPc = "shell"
    /\ \E e \in Emails \cup {NoEmail}, c \in {"send", "delete"} :
        run(Argv(e, c, 0, <<>>, <<>>, FALSE, {}, FALSE, "none"))

\* gmail [--account e] url <threadIds...>
runUrl ==
    /\ cliPc = "shell"
    /\ \E e \in Emails \cup {NoEmail}, n \in 1..MaxThreads :
        run(Argv(e, "url", n, <<>>, <<>>, FALSE, {}, FALSE, "none"))

\* gmail [--account e] labels create <name> [--text HEX] [--bg HEX]; the
\* labels.create request may fail
runLabelsCreate ==
    /\ cliPc = "shell"
    /\ \E e \in Emails \cup {NoEmail}, color \in {"none", "valid", "invalid"},
          rf \in BOOLEAN :
        run(Argv(e, "labels create", 0, <<>>, <<>>, FALSE, {}, rf, color))

\* gmail [--account e] labels <threadIds...> [--add ..] [--remove ..]
\* [--allow-dangerous-labels]; labels.list answers, and the threads.modify
\* requests for the threads in fails fail
runLabels ==
    /\ cliPc = "shell"
    /\ \E e \in Emails \cup {NoEmail}, n \in 1..MaxThreads,
          add \in SeqsOf(RequestedLabels, 0, MaxAdd), remove \in RemoveLists,
          allow \in BOOLEAN :
        \E fails \in SUBSET (1..n) :
            run(Argv(e, "labels", n, add, remove, allow, fails, FALSE, "none"))

\* what an accounts or config command did: as Outcome, with the account
\* store and the default account it leaves
AccountsOutcome(code, kind, cs, store, default) ==
    [exitCode |-> code,
     report |-> [kind |-> kind, labels |-> <<>>, results |-> <<>>],
     calls |-> cs, accounts |-> store, defaultAccount |-> default]

\* error(msg) in an accounts or config command: nothing is changed
accountsError(kind, cs) == AccountsOutcome(1, kind, cs, accounts, defaultAccount)

\* handleAccounts: "accounts add <email> [--manual] [--readonly]"
handleAccountsAdd(a) ==
    LET scopes == IF a.readonly THEN READONLY_GMAIL_SCOPES ELSE DEFAULT_GMAIL_SCOPES
        opts == GmailOAuthOptions({"scopes", "includeGrantedScopes"}, scopes, FALSE, "")
        called == <<ServiceCall("addGmailAccount", a.account, opts)>>
        done == addGmailAccount(a.account, a.manual, a.authorized)
    IN  IF a.account = NoEmail THEN accountsError("Usage", <<>>)
        ELSE IF ~a.creds THEN accountsError("No credentials configured", <<>>)
        ELSE IF done.threw
            THEN AccountsOutcome(1, done.error, called \o done.calls, done.accounts,
                                 defaultAccount)
        ELSE AccountsOutcome(0, "added", called \o done.calls, done.accounts,
                IF Cardinality(listAccounts(done.accounts)) = 1
                THEN a.account ELSE defaultAccount)

\* handleAccounts: "accounts upgrade <email> [--manual]"
handleAccountsUpgrade(a) ==
    LET opts == GmailOAuthOptions({"scopes", "includeGrantedScopes", "prompt"},
                                  DEFAULT_GMAIL_SCOPES, FALSE, "consent")
        called == <<ServiceCall("updateGmailAccount", a.account, opts)>>
        done == updateGmailAccount(a.account, a.manual, opts, a.authorized)
    IN  IF a.account = NoEmail THEN accountsError("Usage", <<>>)
        ELSE IF ~a.creds THEN accountsError("No credentials configured", <<>>)
        ELSE IF a.account \notin listAccounts(accounts)
            THEN accountsError("Account not found", <<>>)
        ELSE IF done.threw
            THEN AccountsOutcome(1, done.error, called \o done.calls, done.accounts,
                                 defaultAccount)
        ELSE AccountsOutcome(0, "upgraded", called \o done.calls, done.accounts,
                             defaultAccount)

\* "accounts remove" that leaves the default account alone
handleAccountsRemoveKeepingDefault(a) ==
    LET wasDefault == defaultAccount = a.account
        done == serviceDeleteAccount(a.account)
    IN  IF a.account = NoEmail THEN accountsError("Usage", <<>>)
        ELSE IF done.deleted
            THEN AccountsOutcome(0, IF wasDefault THEN "Removed (was default)"
                                    ELSE "Removed",
                                 <<>>, done.accounts, defaultAccount)
        ELSE AccountsOutcome(0, "Not found", <<>>, accounts, defaultAccount)

\* handleAccounts: "accounts remove <email>"
handleAccountsRemove(a) ==
    LET wasDefault == defaultAccount = a.account
        done == serviceDeleteAccount(a.account)
    IN  IF a.account = NoEmail THEN accountsError("Usage", <<>>)
        ELSE IF done.deleted
            THEN AccountsOutcome(0, IF wasDefault THEN "Removed (was default)"
                                    ELSE "Removed",
                                 <<>>, done.accounts,
                                 IF wasDefault THEN NoEmail ELSE defaultAccount)
        ELSE AccountsOutcome(0, "Not found", <<>>, accounts, defaultAccount)

\* handleConfig: "config default <email>" and "config show"
handleConfig(a) ==
    IF a.command = "config show"
        THEN AccountsOutcome(0, "Configuration", <<>>, accounts, defaultAccount)
    ELSE IF a.account = NoEmail THEN accountsError("Usage", <<>>)
    ELSE IF a.account \notin listAccounts(accounts)
        THEN accountsError("Account not found", <<>>)
    ELSE AccountsOutcome(0, "Default account set", <<>>, accounts, a.account)

\* the command line of an accounts or config command; creds: a credentials
\* file is configured; authorized: the authorization, if run, succeeds
AccountsArgv(command, email, isManual, readonly, creds, authorized) ==
    [command |-> command, account |-> email, manual |-> isManual,
     readonly |-> readonly, creds |-> creds, authorized |-> authorized]

\* one process runs main() on an accounts or config command line and exits
runOn(a, done) ==
    /\ argv' = a
    /\ exitCode' = done.exitCode
    /\ report' = done.report
    /\ calls' = done.calls
    /\ accounts' = done.accounts
    /\ defaultAccount' = done.defaultAccount
    /\ cliPc' = "exited"
    /\ UNCHANGED <<flowVars, storeVars, svcVars, mockVars>>

\* gmail accounts add [<email>] [--manual] [--readonly]
runAccountsAdd ==
    /\ cliPc = "shell"
    /\ \E e \in Emails \cup {NoEmail}, m, ro, creds, authorized \in BOOLEAN :
        LET a == AccountsArgv("accounts add", e, m, ro, creds, authorized)
        IN runOn(a, handleAccountsAdd(a))

\* gmail accounts upgrade [<email>] [--manual]
runAccountsUpgrade ==
    /\ cliPc = "shell"
    /\ \E e \in Emails \cup {NoEmail}, m, creds, authorized \in BOOLEAN :
        LET a == AccountsArgv("accounts upgrade", e, m, FALSE, creds, authorized)
        IN runOn(a, handleAccountsUpgrade(a))

\* gmail accounts remove [<email>]
runAccountsRemove ==
    /\ cliPc = "shell"
    /\ \E e \in Emails \cup {NoEmail} :
        LET a == AccountsArgv("accounts remove", e, FALSE, FALSE, FALSE, FALSE)
        IN runOn(a, handleAccountsRemove(a))

\* gmail config default [<email>] | gmail config show
runConfig ==
    /\ cliPc = "shell"
    /\ \E e \in Emails \cup {NoEmail}, c \in {"config default", "config show"} :
        LET a == AccountsArgv(c, e, FALSE, FALSE, FALSE, FALSE)
        IN runOn(a, handleConfig(a))

\* a program using the library calls GmailService.deleteAccount(email)
libraryDeleteAccount ==
    /\ cliPc = "shell"
    /\ \E e \in Emails :
        /\ accounts[e].registered
        /\ accounts' = serviceDeleteAccount(e).accounts
    /\ UNCHANGED <<defaultAccount, cliPc, argv, exitCode, report, calls>>
    /\ UNCHANGED <<flowVars, storeVars, svcVars, mockVars>>

\* the process is gone; the next command can be typed
shellPrompt ==
    /\ cliPc = "exited"
    /\ cliPc' = "shell"
    /\ argv' = <<>>
    /\ exitCode' = 0
    /\ report' = <<>>
    /\ calls' = <<>>
    /\ UNCHANGED <<accounts, defaultAccount>>
    /\ UNCHANGED <<flowVars, storeVars, svcVars, mockVars>>


\* ---------------------------------------------------------- AccountStorage

\* the processes that use one config directory, by process.pid
Procs == {"p1", "p2"}

\* the process studied where one alone is
Main == "p1"

\* this.accountsFile, this.credentialsFile, this.configFile
accountsFile == "accounts.json"

credentialsFile == "credentials.json"

configFile == "config.json"

LiveFiles == {accountsFile, credentialsFile, configFile}

\* writeJsonFileAtomic writing the live file itself
tempPathInPlace(filePath, pid) == filePath

\* a temporary name that leaves out the process id
tempPathShared(filePath, pid) == ".tmp-" \o filePath

\* tempPath of writeJsonFileAtomic: .tmp-<basename>-<pid>-<time>, same directory
tempPath(filePath, pid) == ".tmp-" \o filePath \o "-" \o pid

Paths == LiveFiles \cup {tempPath(filePath, pid) : filePath \in LiveFiles, pid \in Procs}

\* permission bits, in octal
OwnerOnly == "0600"

DirOwnerOnly == "0700"

\* the config directory: missing, or there with its permission bits
NoDir == [exists |-> FALSE, mode |-> "none"]

Dir(mode) == [exists |-> TRUE, mode |-> mode]

\* a file: missing, or the JSON tokens written to it so far and its
\* permission bits
NoFile == [exists |-> FALSE, text |-> <<>>, mode |-> "none"]

FileWithMode(text, mode) == [exists |-> TRUE, text |-> text, mode |-> mode]

\* a file as the store leaves it
File(text) == FileWithMode(text, OwnerOnly)

\* JavaScript values: null, a number, or an object with the properties read
\* here; a property that is missing or undefined reads as Undefined
Undefined == "undefined"

NoScopes == [given |-> FALSE, list |-> <<>>]

ScopeList(list) == [given |-> TRUE, list |-> list]

Json(kind, email, refreshToken) ==
    [json |-> kind, email |-> email, clientId |-> Undefined,
     clientSecret |-> Undefined, refreshToken |-> refreshToken,
     accessToken |-> Undefined, scopes |-> NoScopes, defaultAccount |-> Undefined]

JsonNull == Json("null", Undefined, Undefined)

JsonNumber == Json("number", Undefined, Undefined)

JsonTrue == Json("true", Undefined, Undefined)

JsonFalse == Json("false", Undefined, Undefined)

\* an object that has no property, {}
JsonObject == Json("object", Undefined, Undefined)

\* an EmailAccount record (types.ts) without the optional properties
EmailAccount(email, refreshToken) ==
    [Json("object", email, refreshToken) EXCEPT !.clientId = "client-id",
                                                !.clientSecret = "client-secret"]

\* the config object {defaultAccount: email}
Config(email) == [JsonObject EXCEPT !.defaultAccount = email]

\* the credentials object {clientId, clientSecret}
Credentials(clientId, clientSecret) ==
    [JsonObject EXCEPT !.clientId = clientId, !.clientSecret = clientSecret]

\* JSON tokens: the brackets of an array, and one token for each value
\* between them, an object token holding the properties written out
PropertyNames ==
    {"email", "clientId", "clientSecret", "refreshToken", "accessToken", "scopes",
     "defaultAccount"}

NoProps == [name \in {} |-> Undefined]

Token(kind, props) == [json |-> kind, props |-> props]

LBracket == Token("[", NoProps)

RBracket == Token("]", NoProps)

IsValue(tok) == tok.json \in {"null", "number", "object"}

\* a stringify that writes out only the properties that are truthy or a
\* non-empty array
writtenNonEmpty(value, name) ==
    IF name = "scopes" THEN value.scopes.given /\ value.scopes.list # <<>>
    ELSE value[name] # Undefined

\* JSON.stringify leaves out the properties whose value is undefined
written(value, name) ==
    IF name = "scopes" THEN value.scopes.given ELSE value[name] # Undefined

\* JSON.stringify of one value that is not an array
stringifyValue(value) ==
    Token(value.json,
          IF value.json # "object" THEN NoProps
          ELSE [name \in {n \in PropertyNames : written(value, n)} |->
                    IF name = "scopes" THEN value.scopes.list ELSE value[name]])

\* JSON.parse of one value token
parseValue(tok) ==
    LET prop(name) == IF name \in DOMAIN tok.props THEN tok.props[name] ELSE Undefined IN
    [json |-> tok.json,
     email |-> prop("email"),
     clientId |-> prop("clientId"),
     clientSecret |-> prop("clientSecret"),
     refreshToken |-> prop("refreshToken"),
     accessToken |-> prop("accessToken"),
     scopes |-> IF "scopes" \in DOMAIN tok.props THEN ScopeList(tok.props["scopes"])
                ELSE NoScopes,
     defaultAccount |-> prop("defaultAccount")]

\* what JSON.parse returns or a variable holds: an array of values, or one
\* value in data
JsArray(values) == [isArray |-> TRUE, data |-> values]

JsValue(value) == [isArray |-> FALSE, data |-> <<value>>]

\* JSON.stringify of an array of values
JSONstringify(values) ==
    <<LBracket>> \o [i \in 1..Len(values) |-> stringifyValue(values[i])] \o <<RBracket>>

\* JSON.stringify(data, null, 2) of any value
JSONstringifyAny(js) ==
    IF js.isArray THEN JSONstringify(js.data) ELSE <<stringifyValue(js.data[1])>>

\* JSON.parse: an array, one value alone, or a SyntaxError
JSONparse(text) ==
    IF /\ Len(text) >= 2
       /\ text[1] = LBracket
       /\ text[Len(text)] = RBracket
       /\ \A i \in 2..(Len(text) - 1) : IsValue(text[i])
    THEN [ok |-> TRUE, isArray |-> TRUE,
          data |-> [i \in 1..(Len(text) - 2) |-> parseValue(text[i + 1])]]
    ELSE IF Len(text) = 1 /\ IsValue(text[1])
    THEN [ok |-> TRUE, isArray |-> FALSE, data |-> <<parseValue(text[1])>>]
    ELSE [ok |-> FALSE, isArray |-> FALSE, data |-> <<>>]

\* accounts kept in an array: push(account)
MapSetAppend(m, account) == Append(m, account)

\* Map.set(account.email, account): replaces in place or appends
MapSet(m, account) ==
    IF \E i \in 1..Len(m) : m[i].email = account.email
    THEN [i \in 1..Len(m) |-> IF m[i].email = account.email THEN account ELSE m[i]]
    ELSE Append(m, account)

\* Map.delete(email)
MapDelete(m, email) == SelectSeq(m, LAMBDA account : account.email # email)

RECURSIVE MapSetAll(_, _)
MapSetAll(m, data) ==
    IF data = <<>> THEN m
    ELSE MapSetAll(MapSet(m, Head(data)), Tail(data))

\* loadAccounts: nothing to read, a throw, or the Map filled from the array;
\* reading .email of null throws inside the try
loadAccounts(file) ==
    IF ~file.exists THEN [threw |-> FALSE, accounts |-> <<>>]
    ELSE LET parsed == JSONparse(file.text) IN
        IF ~parsed.ok \/ ~parsed.isArray
           \/ \E i \in 1..Len(parsed.data) : parsed.data[i] = JsonNull
        THEN [threw |-> TRUE, accounts |-> <<>>]
        ELSE [threw |-> FALSE, accounts |-> MapSetAll(<<>>, parsed.data)]

\* getAccount(email): Map.get(email) || null
storageGetAccount(m, email) ==
    IF \E i \in 1..Len(m) : m[i].email = email
    THEN JsValue(m[CHOOSE i \in 1..Len(m) : m[i].email = email])
    ELSE JsValue(JsonNull)

\* getCredentials: null when the file is missing or is not JSON, else
\* whatever JSON.parse returned
readCredentials(file) ==
    IF ~file.exists THEN JsValue(JsonNull)
    ELSE LET parsed == JSONparse(file.text) IN
        IF parsed.ok THEN [isArray |-> parsed.isArray, data |-> parsed.data]
        ELSE JsValue(JsonNull)

\* loadConfig: {} when the file is missing or is not JSON, else whatever
\* JSON.parse returned
loadConfig(file) ==
    IF ~file.exists THEN JsValue(JsonObject)
    ELSE LET parsed == JSONparse(file.text) IN
        IF parsed.ok THEN [isArray |-> parsed.isArray, data |-> parsed.data]
        ELSE JsValue(JsonObject)

IsNull(js) == ~js.isArray /\ js.data[1].json = "null"

IsPrimitive(js) == ~js.isArray /\ js.data[1].json = "number"

IsObject(js) == ~js.isArray /\ js.data[1].json = "object"

\* what an operation gave: the value or the string it returned (for
\* setDefaultAccount and clearDefaultAccount, the config they go on to
\* write), or a throw
Returned(op, js) == [op |-> op, threw |-> FALSE, value |-> js, email |-> NoEmail]

ReturnedString(op, email) ==
    [op |-> op, threw |-> FALSE, value |-> JsValue(JsonNull), email |-> email]

Threw(op) == [op |-> op, threw |-> TRUE, value |-> JsValue(JsonNull), email |-> NoEmail]

NoReturn == Returned("none", JsValue(JsonNull))

\* config.defaultAccount || null: reading a property of null throws, and an
\* array or a number has no such property
readDefaultAccount(config) ==
    IF IsNull(config) THEN Threw("getDefaultAccount")
    ELSE IF IsObject(config) /\ config.data[1].defaultAccount # Undefined
    THEN ReturnedString("getDefaultAccount", config.data[1].defaultAccount)
    ELSE Returned("getDefaultAccount", JsValue(JsonNull))

\* config.defaultAccount = email: throws on null and, the module being in
\* strict mode, on a number; a property set on an array is not part of its JSON
assignDefaultAccount(config, email) ==
    IF IsNull(config) \/ IsPrimitive(config) THEN Threw("setDefaultAccount")
    ELSE IF IsObject(config)
    THEN Returned("setDefaultAccount",
                  JsValue([config.data[1] EXCEPT !.defaultAccount = email]))
    ELSE Returned("setDefaultAccount", config)

\* delete config.defaultAccount: throws on null only
deleteDefaultAccount(config) ==
    IF IsNull(config) THEN Threw("clearDefaultAccount")
    ELSE IF IsObject(config)
    THEN Returned("clearDefaultAccount",
                  JsValue([config.data[1] EXCEPT !.defaultAccount = Undefined]))
    ELSE Returned("clearDefaultAccount", config)

\* ensureConfigDir: mkdirSync with mode 0o700 when the directory is missing
ensureConfigDir(d) == IF d.exists THEN d ELSE Dir(DirOwnerOnly)

\* a writeFileSync that gives no mode: a new file gets 0o666 less the umask
openSyncDefaultMode(files, path, mode) ==
    IF files[path].exists THEN [files EXCEPT ![path].text = <<>>]
    ELSE [files EXCEPT ![path] = FileWithMode(<<>>, "0644")]

\* the open of writeFileSync(path, data, {mode}): an existing file is emptied
\* and keeps its permission bits, a new one is created with mode
openSync(files, path, mode) ==
    IF files[path].exists THEN [files EXCEPT ![path].text = <<>>]
    ELSE [files EXCEPT ![path] = FileWithMode(<<>>, mode)]

\* one more part of the data written at the descriptor's position
writeAt(text, position, tok) ==
    IF position <= Len(text) THEN [text EXCEPT ![position] = tok]
    ELSE Append(text, tok)

\* fs.renameSync(oldPath, newPath): one step; nothing when both are one file,
\* or when oldPath is gone
renameSync(files, oldPath, newPath) ==
    IF oldPath = newPath \/ ~files[oldPath].exists THEN files
    ELSE [files EXCEPT ![newPath] = files[oldPath], ![oldPath] = NoFile]

\* no writeJsonFileAtomic under way
NoJob == [filePath |-> "", text |-> <<>>, done |-> 0]

\* new AccountStorage(configDir): ensureConfigDir, then loadAccounts, whose
\* throw the constructor lets through
construct(pid) ==
    /\ storePc[pid] = "down"
    /\ configDir' = ensureConfigDir(configDir)
    /\ LET loaded == loadAccounts(fs[accountsFile]) IN
        /\ storePc' = [storePc EXCEPT ![pid] = IF loaded.threw THEN "failed" ELSE "ready"]
        /\ storeAccounts' = [storeAccounts EXCEPT ![pid] = loaded.accounts]
    /\ UNCHANGED <<fs, job, ret, committed>>
    /\ UNCHANGED <<flowVars, cliVars, svcVars, mockVars>>

\* writeJsonFileAtomic(filePath, data), up to the open of writeFileSync: the
\* temporary file is created empty, for its owner only
writeJsonFileAtomicOpens(pid, filePath, js) ==
    /\ fs' = openSync(fs, tempPath(filePath, pid), OwnerOnly)
    /\ job' = [job EXCEPT ![pid] = [filePath |-> filePath,
                                    text |-> JSONstringifyAny(js), done |-> 0]]
    /\ storePc' = [storePc EXCEPT ![pid] = "writing"]

\* saveAccounts: writeJsonFileAtomic(accountsFile, Array.from(accounts.values()))
saveAccounts(pid, entries) == writeJsonFileAtomicOpens(pid, accountsFile, JsArray(entries))

\* addAccount(account)
addAccount(pid, account) ==
    /\ storePc[pid] = "ready"
    /\ storeAccounts' = [storeAccounts EXCEPT ![pid] = MapSet(@, account)]
    /\ saveAccounts(pid, MapSet(storeAccounts[pid], account))
    /\ UNCHANGED <<configDir, ret, committed>>
    /\ UNCHANGED <<flowVars, cliVars, svcVars, mockVars>>

\* a deleteAccount that never saves
deletedNever(m, email) == FALSE

\* what this.accounts.delete(email) returns: whether the email was there
deleted(m, email) == \E i \in 1..Len(m) : m[i].email = email

\* deleteAccount(email): saves only when the email was there, and returns
\* whether it was
deleteAccount(pid, email) ==
    /\ storePc[pid] = "ready"
    /\ storeAccounts' = [storeAccounts EXCEPT ![pid] = MapDelete(@, email)]
    /\ IF deleted(storeAccounts[pid], email)
       THEN saveAccounts(pid, MapDelete(storeAccounts[pid], email))
       ELSE UNCHANGED <<fs, job, storePc>>
    /\ ret' = Returned("deleteAccount",
                       JsValue(IF \E i \in 1..Len(storeAccounts[pid]) :
                                    storeAccounts[pid][i].email = email
                               THEN JsonTrue ELSE JsonFalse))
    /\ UNCHANGED <<configDir, committed>>
    /\ UNCHANGED <<flowVars, cliVars, svcVars, mockVars>>

\* setCredentials(clientId, clientSecret)
setCredentials(pid, clientId, clientSecret) ==
    /\ storePc[pid] = "ready"
    /\ writeJsonFileAtomicOpens(pid, credentialsFile,
                                JsValue(Credentials(clientId, clientSecret)))
    /\ UNCHANGED <<configDir, storeAccounts, ret, committed>>
    /\ UNCHANGED <<flowVars, cliVars, svcVars, mockVars>>

\* getCredentials()
getCredentials(pid) ==
    /\ storePc[pid] = "ready"
    /\ ret' = Returned("getCredentials", readCredentials(fs[credentialsFile]))
    /\ UNCHANGED <<fs, configDir, storePc, storeAccounts, job, committed>>
    /\ UNCHANGED <<flowVars, cliVars, svcVars, mockVars>>

\* getDefaultAccount()
getDefaultAccount(pid) ==
    /\ storePc[pid] = "ready"
    /\ ret' = readDefaultAccount(loadConfig(fs[configFile]))
    /\ UNCHANGED <<fs, configDir, storePc, storeAccounts, job, committed>>
    /\ UNCHANGED <<flowVars, cliVars, svcVars, mockVars>>

\* setDefaultAccount(email): loadConfig, the assignment, writeJsonFileAtomic
setDefaultAccount(pid, email) ==
    /\ storePc[pid] = "ready"
    /\ LET assigned == assignDefaultAccount(loadConfig(fs[configFile]), email) IN
        /\ ret' = assigned
        /\ IF assigned.threw THEN UNCHANGED <<fs, job, storePc>>
           ELSE writeJsonFileAtomicOpens(pid, configFile, assigned.value)
    /\ UNCHANGED <<configDir, storeAccounts, committed>>
    /\ UNCHANGED <<flowVars, cliVars, svcVars, mockVars>>

\* clearDefaultAccount(): loadConfig, the delete, writeJsonFileAtomic
clearDefaultAccount(pid) ==
    /\ storePc[pid] = "ready"
    /\ LET cleared == deleteDefaultAccount(loadConfig(fs[configFile])) IN
        /\ ret' = cleared
        /\ IF cleared.threw THEN UNCHANGED <<fs, job, storePc>>
           ELSE writeJsonFileAtomicOpens(pid, configFile, cleared.value)
    /\ UNCHANGED <<configDir, storeAccounts, committed>>
    /\ UNCHANGED <<flowVars, cliVars, svcVars, mockVars>>

\* writeFileSync under way: the next part of the text reaches the file
writeFileSync(pid) ==
    /\ storePc[pid] = "writing"
    /\ LET path == tempPath(job[pid].filePath, pid)
           done == job[pid].done
       IN /\ done < Len(job[pid].text)
          /\ fs' = IF fs[path].exists
                   THEN [fs EXCEPT ![path].text =
                            writeAt(@, done + 1, job[pid].text[done + 1])]
                   ELSE fs
          /\ job' = [job EXCEPT ![pid].done = done + 1]
    /\ UNCHANGED <<configDir, storePc, storeAccounts, ret, committed>>
    /\ UNCHANGED <<flowVars, cliVars, svcVars, mockVars>>

\* writeFileSync has returned: renameSync(tempPath, filePath) ends the write
writeJsonFileAtomic(pid) ==
    /\ storePc[pid] = "writing"
    /\ job[pid].done = Len(job[pid].text)
    /\ fs' = renameSync(fs, tempPath(job[pid].filePath, pid), job[pid].filePath)
    /\ committed' = IF job[pid].filePath = accountsFile THEN File(job[pid].text)
                    ELSE committed
    /\ job' = [job EXCEPT ![pid] = NoJob]
    /\ storePc' = [storePc EXCEPT ![pid] = "ready"]
    /\ UNCHANGED <<configDir, storeAccounts, ret>>
    /\ UNCHANGED <<flowVars, cliVars, svcVars, mockVars>>

\* the process dies, or exits: its memory is gone and the files stay
crash(pid) ==
    /\ storePc[pid] \in {"ready", "writing", "failed"}
    /\ storePc' = [storePc EXCEPT ![pid] = "down"]
    /\ storeAccounts' = [storeAccounts EXCEPT ![pid] = <<>>]
    /\ job' = [job EXCEPT ![pid] = NoJob]
    /\ UNCHANGED <<fs, configDir, ret, committed>>
    /\ UNCHANGED <<flowVars, cliVars, svcVars, mockVars>>

\* ------------------------------------------------- GmailService as a library

\* no GmailService object yet
NoService == [constructed |-> FALSE, accounts |-> FALSE]

\* the credentials a client is built with: oauth2 of the account record
Bundle(account) ==
    [clientId |-> account.clientId, clientSecret |-> account.clientSecret,
     refreshToken |-> account.refreshToken, accessToken |-> account.accessToken]

NoClient == [email |-> NoEmail, bundle |-> Bundle(JsonObject)]

\* the refresh token of the n-th authorization
IssuedToken(n) == "refresh-" \o ToString(n)

ServiceIdle ==
    /\ serviceOptions = NoService
    /\ gmailClients = [e \in Emails |-> {}]
    /\ lastClient = NoClient
    /\ dropped = [e \in Emails |-> FALSE]
    /\ authorizations = 0

\* a deleteAccount that leaves the cached client where it is
keepClient(clients, email) == clients

\* this.gmailClients.delete(email)
dropClient(clients, email) == [clients EXCEPT ![email] = {}]

\* new GmailService(options): the accountStorage field is initialised with
\* new AccountStorage() as the object is constructed, and the class has no
\* constructor that reads options
newGmailService(inMemory) ==
    /\ ~serviceOptions.constructed
    /\ storePc[Main] = "down"
    /\ serviceOptions' = [constructed |-> TRUE, accounts |-> inMemory]
    /\ configDir' = ensureConfigDir(configDir)
    /\ LET loaded == loadAccounts(fs[accountsFile]) IN
        /\ storePc' = [storePc EXCEPT ![Main] = IF loaded.threw THEN "failed" ELSE "ready"]
        /\ storeAccounts' = [storeAccounts EXCEPT ![Main] = loaded.accounts]
    /\ UNCHANGED <<fs, job, ret, committed>>
    /\ UNCHANGED <<gmailClients, lastClient, dropped, authorizations>>
    /\ UNCHANGED <<flowVars, cliVars, mockVars>>

\* a remote operation for email: getGmailClient(email) gives the cached
\* client, or builds one from the account record and caches it, or throws
\* "Account '<email>' not found"
getGmailClient(email) ==
    /\ serviceOptions.constructed
    /\ storePc[Main] = "ready"
    /\ LET account == storageGetAccount(storeAccounts[Main], email) IN
        IF gmailClients[email] # {}
        THEN /\ lastClient' = [email |-> email,
                               bundle |-> CHOOSE b \in gmailClients[email] : TRUE]
             /\ ret' = Returned("getGmailClient", JsValue(JsonNull))
             /\ UNCHANGED gmailClients
        ELSE IF IsNull(account)
        THEN /\ ret' = Threw("Account '" \o email \o "' not found")
             /\ UNCHANGED <<gmailClients, lastClient>>
        ELSE /\ gmailClients' = [gmailClients EXCEPT ![email] = {Bundle(account.data[1])}]
             /\ lastClient' = [email |-> email, bundle |-> Bundle(account.data[1])]
             /\ ret' = Returned("getGmailClient", JsValue(JsonNull))
    /\ UNCHANGED <<fs, configDir, storePc, storeAccounts, job, committed>>
    /\ UNCHANGED <<serviceOptions, dropped, authorizations>>
    /\ UNCHANGED <<flowVars, cliVars, mockVars>>

\* addGmailAccount(email, ...) whose authorization succeeds: refused when
\* the email has a record, else the record is added and saved
addGmailAccountAuthorized(email) ==
    /\ serviceOptions.constructed
    /\ storePc[Main] = "ready"
    /\ authorizations < MaxAuthorizations
    /\ IF ~IsNull(storageGetAccount(storeAccounts[Main], email))
       THEN /\ ret' = Threw("Account '" \o email \o "' already exists")
            /\ UNCHANGED <<fs, job, storePc, storeAccounts, authorizations>>
       ELSE LET account == EmailAccount(email, IssuedToken(authorizations + 1)) IN
            /\ authorizations' = authorizations + 1
            /\ storeAccounts' = [storeAccounts EXCEPT ![Main] = MapSet(@, account)]
            /\ saveAccounts(Main, MapSet(storeAccounts[Main], account))
            /\ ret' = Returned("addGmailAccount", JsValue(JsonNull))
    /\ UNCHANGED <<configDir, committed>>
    /\ UNCHANGED <<serviceOptions, gmailClients, lastClient, dropped>>
    /\ UNCHANGED <<flowVars, cliVars, mockVars>>

\* GmailService.deleteAccount(email): the cached client is dropped, then
\* accountStorage.deleteAccount(email)
deleteAccountAndClient(email) ==
    /\ serviceOptions.constructed
    /\ storePc[Main] = "ready"
    /\ gmailClients' = dropClient(gmailClients, email)
    /\ dropped' = [dropped EXCEPT ![email] = @ \/ gmailClients'[email] # gmailClients[email]]
    /\ storeAccounts' = [storeAccounts EXCEPT ![Main] = MapDelete(@, email)]
    /\ IF ~IsNull(storageGetAccount(storeAccounts[Main], email))
       THEN saveAccounts(Main, MapDelete(storeAccounts[Main], email))
       ELSE UNCHANGED <<fs, job, storePc>>
    /\ UNCHANGED <<configDir, ret, committed>>
    /\ UNCHANGED <<serviceOptions, lastClient, authorizations>>
    /\ UNCHANGED <<flowVars, cliVars, mockVars>>

\* setAccountTokens(account): the record of account.email is replaced, or
\* added, in memory, and the cached client of that email is dropped
setAccountTokens(account) ==
    /\ serviceOptions.constructed
    /\ storePc[Main] = "ready"
    /\ gmailClients' = dropClient(gmailClients, account.email)
    /\ dropped' = [dropped EXCEPT ![account.email] =
                        @ \/ gmailClients'[account.email] # gmailClients[account.email]]
    /\ storeAccounts' = [storeAccounts EXCEPT ![Main] = MapSet(@, account)]
    /\ UNCHANGED <<fs, configDir, storePc, job, ret, committed>>
    /\ UNCHANGED <<serviceOptions, lastClient, authorizations>>
    /\ UNCHANGED <<flowVars, cliVars, mockVars>>

\* updateGmailAccount(email, ...) whose authorization succeeds: the record's
\* refresh token and scopes are replaced and saved, and the cached client of
\* that email is dropped
updateGmailAccountAuthorized(email) ==
    /\ serviceOptions.constructed
    /\ storePc[Main] = "ready"
    /\ authorizations < MaxAuthorizations
    /\ ~IsNull(storageGetAccount(storeAccounts[Main], email))
    /\ LET account == [EmailAccount(email, IssuedToken(authorizations + 1))
                            EXCEPT !.scopes = ScopeList(<<GMAIL_MODIFY_SCOPE,
                                                          GMAIL_LABELS_SCOPE>>)]
       IN /\ storeAccounts' = [storeAccounts EXCEPT ![Main] = MapSet(@, account)]
          /\ saveAccounts(Main, MapSet(storeAccounts[Main], account))
    /\ authorizations' = authorizations + 1
    /\ gmailClients' = dropClient(gmailClients, email)
    /\ dropped' = [dropped EXCEPT ![email] = @ \/ gmailClients'[email] # gmailClients[email]]
    /\ UNCHANGED <<configDir, ret, committed>>
    /\ UNCHANGED <<serviceOptions, lastClient>>
    /\ UNCHANGED <<flowVars, cliVars, mockVars>>

\* ------------------------------------------------------- MockGmailService

\* the service methods studied, of the seven the mock records calls of
MockMethods == {"searchThreads", "getThread", "createLabel"}

MockThreadIds == {"thread1"}

\* the methods a test configures errors for
ErrorMethods == {"searchThreads", "getThread"}

\* "*" is the default for any query without results of its own
MockQueries == {"*"}

MockLabel(id, name, type) == [id |-> id, name |-> name, type |-> type]

\* the label lists a test gives to setLabels
LabelLists ==
    { <<>>, <<MockLabel("Label_1", "Work", "user")>> }

MockError(method, err, once) == [method |-> method, error |-> err, once |-> once]

\* the errors a test configures: one that stays, one thrown once only
ErrorOf(once) == IF once THEN "Rate limited" ELSE "API Error"

\* the fields of a freshly constructed MockGmailService
NewMock ==
    [ threads       |-> {},
      searchResults |-> {},
      labels        |-> <<>>,
      errors        |-> <<>>,
      nextLabelId   |-> 1,
      calls         |-> [method \in MockMethods |-> <<>>] ]

\* the fields of the mock as they stand
Mock ==
    [ threads       |-> mockThreads,
      searchResults |-> searchResults,
      labels        |-> mockLabels,
      errors        |-> mockErrors,
      nextLabelId   |-> nextLabelId,
      calls         |-> mockCalls ]

NoMockReturn == [method |-> "", outcome |-> "none", value |-> ""]
MockThrew(method, err) == [method |-> method, outcome |-> "error", value |-> err]
MockReturned(method, value) == [method |-> method, outcome |-> "returned", value |-> value]

MockIdle ==
    /\ mockThreads = NewMock.threads
    /\ searchResults = NewMock.searchResults
    /\ mockLabels = NewMock.labels
    /\ mockErrors = NewMock.errors
    /\ nextLabelId = NewMock.nextLabelId
    /\ mockCalls = NewMock.calls
    /\ mockRet = NoMockReturn
    /\ lastSet = [method \in MockMethods |-> "none"]
    /\ alone = [method \in MockMethods |-> TRUE]

RecordedCalls ==
    Len(mockCalls["searchThreads"]) + Len(mockCalls["getThread"])
        + Len(mockCalls["createLabel"])

\* this.errors.findIndex((e) => e.method === method), 0 for no index
findIndex(errors, method) ==
    IF \E i \in 1..Len(errors) : errors[i].method = method
    THEN CHOOSE i \in 1..Len(errors) :
            /\ errors[i].method = method
            /\ \A j \in 1..(i - 1) : errors[j].method # method
    ELSE 0

splice(errors, index) ==
    [i \in 1..(Len(errors) - 1) |-> IF i < index THEN errors[i] ELSE errors[i + 1]]

\* a checkError that leaves an error configured for one call in the list
checkErrorKeeping(errors, method) ==
    LET errorIndex == findIndex(errors, method) IN
    IF errorIndex # 0
    THEN [threw |-> TRUE, error |-> errors[errorIndex].error, errors |-> errors]
    ELSE [threw |-> FALSE, error |-> "", errors |-> errors]

\* whether the call throws, what it throws, and this.errors afterwards
checkError(errors, method) ==
    LET errorIndex == findIndex(errors, method) IN
    IF errorIndex # 0
    THEN [threw  |-> TRUE,
          error  |-> errors[errorIndex].error,
          errors |-> IF errors[errorIndex].once
                     THEN splice(errors, errorIndex) ELSE errors]
    ELSE [threw |-> FALSE, error |-> "", errors |-> errors]

recordCall(recorded, method, args) ==
    [recorded EXCEPT ![method] = Append(@, args)]

setThread(threadId) ==
    /\ mockThreads' = mockThreads \cup {threadId}
    /\ UNCHANGED <<searchResults, mockLabels, mockErrors, nextLabelId, mockCalls,
                   mockRet, lastSet, alone>>
    /\ UNCHANGED <<flowVars, cliVars, storeVars, svcVars>>

setSearchResults(query) ==
    /\ searchResults' = searchResults \cup {query}
    /\ UNCHANGED <<mockThreads, mockLabels, mockErrors, nextLabelId, mockCalls,
                   mockRet, lastSet, alone>>
    /\ UNCHANGED <<flowVars, cliVars, storeVars, svcVars>>

setLabels(labels) ==
    /\ mockLabels' = labels
    /\ UNCHANGED <<mockThreads, searchResults, mockErrors, nextLabelId, mockCalls,
                   mockRet, lastSet, alone>>
    /\ UNCHANGED <<flowVars, cliVars, storeVars, svcVars>>

setError(method, err, once) ==
    /\ Len(mockErrors) < MaxErrors
    /\ mockErrors' = Append(mockErrors, MockError(method, err, once))
    /\ lastSet' = [lastSet EXCEPT ![method] = IF once THEN "once" ELSE "always"]
    /\ alone' = [alone EXCEPT ![method] = findIndex(mockErrors, method) = 0]
    /\ UNCHANGED <<mockThreads, searchResults, mockLabels, nextLabelId, mockCalls,
                   mockRet>>
    /\ UNCHANGED <<flowVars, cliVars, storeVars, svcVars>>

clearErrors ==
    /\ mockErrors' = <<>>
    /\ lastSet' = [method \in MockMethods |-> "none"]
    /\ alone' = [method \in MockMethods |-> TRUE]
    /\ UNCHANGED <<mockThreads, searchResults, mockLabels, nextLabelId, mockCalls,
                   mockRet>>
    /\ UNCHANGED <<flowVars, cliVars, storeVars, svcVars>>

clearError(method) ==
    /\ mockErrors' = SelectSeq(mockErrors, LAMBDA e : e.method # method)
    /\ lastSet' = [lastSet EXCEPT ![method] = "none"]
    /\ alone' = [alone EXCEPT ![method] = TRUE]
    /\ UNCHANGED <<mockThreads, searchResults, mockLabels, nextLabelId, mockCalls,
                   mockRet>>
    /\ UNCHANGED <<flowVars, cliVars, storeVars, svcVars>>

\* a reset that lets the label id numbering go on
resetKeepingLabelIds(mock) == [NewMock EXCEPT !.nextLabelId = mock.nextLabelId]

\* the fields after reset(): each one is assigned anew
resetFields(mock) ==
    [ threads       |-> {},
      searchResults |-> {},
      labels        |-> <<>>,
      errors        |-> <<>>,
      nextLabelId   |-> 1,
      calls         |-> [method \in MockMethods |-> <<>>] ]

reset ==
    /\ LET fields == resetFields(Mock) IN
        /\ mockThreads' = fields.threads
        /\ searchResults' = fields.searchResults
        /\ mockLabels' = fields.labels
        /\ mockErrors' = fields.errors
        /\ nextLabelId' = fields.nextLabelId
        /\ mockCalls' = fields.calls
    /\ lastSet' = [method \in MockMethods |-> "none"]
    /\ alone' = [method \in MockMethods |-> TRUE]
    /\ UNCHANGED mockRet
    /\ UNCHANGED <<flowVars, cliVars, storeVars, svcVars>>

\* the start of every service method: recordCall, then checkError
called(method, args) ==
    /\ RecordedCalls < MaxMockCalls
    /\ mockCalls' = recordCall(mockCalls, method, args)
    /\ mockErrors' = checkError(mockErrors, method).errors
    /\ lastSet' = [lastSet EXCEPT ![method] = IF @ = "once" THEN "spent" ELSE @]
    /\ UNCHANGED alone

searchThreads(query) ==
    /\ called("searchThreads", query)
    /\ LET thrown == checkError(mockErrors, "searchThreads") IN
        mockRet' = IF thrown.threw
                   THEN MockThrew("searchThreads", thrown.error)
                   ELSE MockReturned("searchThreads",
                            IF query \in searchResults THEN query
                            ELSE IF "*" \in searchResults THEN "*"
                            ELSE "")
    /\ UNCHANGED <<mockThreads, searchResults, mockLabels, nextLabelId>>
    /\ UNCHANGED <<flowVars, cliVars, storeVars, svcVars>>

getThread(threadId) ==
    /\ called("getThread", threadId)
    /\ LET thrown == checkError(mockErrors, "getThread") IN
        mockRet' = IF thrown.threw
                   THEN MockThrew("getThread", thrown.error)
                   ELSE IF threadId \notin mockThreads
                   THEN MockThrew("getThread", "Thread not found")
                   ELSE MockReturned("getThread", threadId)
    /\ UNCHANGED <<mockThreads, searchResults, mockLabels, nextLabelId>>
    /\ UNCHANGED <<flowVars, cliVars, storeVars, svcVars>>

mockCreateLabel(name) ==
    /\ called("createLabel", name)
    /\ LET thrown == checkError(mockErrors, "createLabel")
           newLabel == MockLabel("Label_" \o ToString(nextLabelId), name, "user")
       IN IF thrown.threw
          THEN /\ mockRet' = MockThrew("createLabel", thrown.error)
               /\ UNCHANGED <<mockLabels, nextLabelId>>
          ELSE /\ nextLabelId' = nextLabelId + 1
               /\ mockLabels' = Append(mockLabels, newLabel)
               /\ mockRet' = MockReturned("createLabel", newLabel.id)
    /\ UNCHANGED <<mockThreads, searchResults>>
    /\ UNCHANGED <<flowVars, cliVars, storeVars, svcVars>>

\* ------------------------------------------------------ specifications

\* the store and the CLI while the flow alone is studied
CliIdle ==
    /\ accounts = [e \in Emails |-> [registered |-> FALSE, scopes |-> {}]]
    /\ defaultAccount = NoEmail
    /\ cliPc = "shell"
    /\ argv = <<>>
    /\ exitCode = 0
    /\ report = <<>>
    /\ calls = <<>>
    /\ ServiceIdle
    /\ MockIdle

\* no process has an AccountStorage
StoreDown ==
    /\ storePc = [pid \in Procs |-> "down"]
    /\ storeAccounts = [pid \in Procs |-> <<>>]
    /\ job = [pid \in Procs |-> NoJob]
    /\ ret = NoReturn

\* the config directory while no AccountStorage is studied
StoreIdle ==
    /\ fs = [path \in Paths |-> NoFile]
    /\ configDir = NoDir
    /\ StoreDown
    /\ committed = NoFile

FlowStart ==
    /\ pc = "idle"
    /\ manual = FALSE
    /\ attempt = 0
    /\ server = {}
    /\ listeners = {}
    /\ timeoutId = {}
    /\ timers = {}
    /\ expectedState = Null
    /\ codeVerifier = Null
    /\ rnd = 0
    /\ sessions = [a \in Attempts |-> [state |-> Null, verifier |-> Null, url |-> Null]]
    /\ inflight = {}
    /\ results = [a \in Attempts |-> Pending]
    /\ nCallbacks = 0
    /\ tokenCalls = [a \in Attempts |-> 0]
    /\ lastCb = Null
    /\ notFound = 0

\* new GmailOAuthFlow(clientId, clientSecret)
FlowInit == options = NoOptions /\ FlowStart

Init == FlowInit /\ CliIdle /\ StoreIdle

Next ==
    \/ \E m \in BOOLEAN : authorize(m)
    \/ listening
    \/ \E a \in Attempts : timeout(a)
    \/ serverError
    \/ \E q \in CallbackQueries : handleCallback(q)
    \/ \E q \in CallbackQueries : pasteRedirectUrl(q)
    \/ \E x \in inflight : \E resp \in getTokenResponses(x.query.code, x.codeVerifier) :
            getTokenSettles(x, resp)

Spec == Init /\ [][Next]_vars

\* the event loop runs what is due: the listen callback once the server is
\* bound, the callback of a timer that is armed, and the continuation of a
\* getToken call, which returns or throws in the end
LiveSpec ==
    /\ Init
    /\ [][Next]_vars
    /\ WF_vars(listening)
    /\ WF_vars(\E a \in Attempts : timeout(a))
    /\ WF_vars(\E x \in inflight :
                \E resp \in getTokenResponses(x.query.code, x.codeVerifier) :
                    getTokenSettles(x, resp))

\* a flow constructed with any options: the steps that build authorization
\* URLs and end attempts, with the redirect pasted by hand when there is one
UrlInit ==
    /\ options \in OptionsGiven
    /\ FlowStart
    /\ CliIdle
    /\ StoreIdle

UrlNext ==
    \/ \E m \in BOOLEAN : authorize(m)
    \/ listening
    \/ \E a \in Attempts : timeout(a)
    \/ serverError
    \/ \E q \in CallbackQueries : pasteRedirectUrl(q)
    \/ \E x \in inflight : \E resp \in getTokenResponses(x.query.code, x.codeVerifier) :
            getTokenSettles(x, resp)
    \/ \E pathname \in OtherPaths : \E q \in CallbackQueries : request(pathname, q)

UrlSpec == UrlInit /\ [][UrlNext]_vars

\* the store a command finds: a@example.com in any of its states and
\* b@example.com never registered; a default account or none
CliInit ==
    /\ accounts \in {f \in [Emails -> AccountStates] :
                        ~f["b@example.com"].registered}
    /\ defaultAccount \in {NoEmail, "a@example.com"}
    /\ cliPc = "shell"
    /\ argv = <<>>
    /\ exitCode = 0
    /\ report = <<>>
    /\ calls = <<>>
    /\ ServiceIdle
    /\ MockIdle
    /\ FlowInit
    /\ StoreIdle

CliNext ==
    \/ runRestricted
    \/ runUrl
    \/ runLabelsCreate
    \/ runLabels
    \/ shellPrompt

CliSpec == CliInit /\ [][CliNext]_vars

\* the CLI with its accounts and config commands, and a program that removes
\* accounts through the library
AccountsInit == CliInit

AccountsNext ==
    \/ runAccountsAdd
    \/ runAccountsUpgrade
    \/ runAccountsRemove
    \/ runConfig
    \/ libraryDeleteAccount
    \/ runRestricted
    \/ runUrl
    \/ runLabelsCreate
    \/ runLabels
    \/ shellPrompt

AccountsSpec == AccountsInit /\ [][AccountsNext]_vars

\* the default account is not set, or it names an account that has a record
DefaultNamesAccount(store, default) ==
    default = NoEmail \/ store[default].registered

\* the accounts and config commands of the CLI alone, on a store whose
\* default account, if set, has a record
ConfigInit ==
    /\ CliInit
    /\ DefaultNamesAccount(accounts, defaultAccount)

ConfigNext ==
    \/ runAccountsAdd
    \/ runAccountsUpgrade
    \/ runAccountsRemove
    \/ runConfig
    \/ shellPrompt

ConfigSpec == ConfigInit /\ [][ConfigNext]_vars

\* what an accounts file may hold when a process starts: nothing, a list
\* written by an earlier run, or something else
OldAccount(email) == EmailAccount(email, "old")

AccountsFileTexts ==
    { <<>>,
      <<LBracket>>,
      <<LBracket, stringifyValue(OldAccount("a@example.com"))>>,
      <<stringifyValue(JsonObject)>>,
      <<stringifyValue(JsonNumber)>>,
      <<LBracket, RBracket>>,
      JSONstringify(<<OldAccount("a@example.com")>>),
      JSONstringify(<<OldAccount("a@example.com"), OldAccount("b@example.com")>>),
      JSONstringify(<<EmailAccount("a@example.com", "older"), OldAccount("a@example.com")>>),
      JSONstringify(<<JsonNumber>>),
      JSONstringify(<<JsonNull>>),
      JSONstringify(<<OldAccount("a@example.com"), JsonObject>>) }

\* the accounts addAccount is given: with or without an access token, and
\* with no scope list, an empty one or the read-only one
NewAccounts ==
    {[EmailAccount(e, "new") EXCEPT !.accessToken = accessToken, !.scopes = scopes] :
        e \in Emails, accessToken \in {Undefined, "access"},
        scopes \in {NoScopes, ScopeList(<<>>), ScopeList(<<GMAIL_READONLY_SCOPE>>)}}

StoreInit ==
    /\ \E file \in {NoFile} \cup {File(t) : t \in AccountsFileTexts} :
        /\ fs = [path \in Paths |-> IF path = accountsFile THEN file ELSE NoFile]
        /\ configDir = IF file.exists THEN Dir(DirOwnerOnly) ELSE NoDir
        /\ committed = file
    /\ StoreDown
    /\ FlowInit
    /\ CliIdle

StoreNext ==
    \/ construct(Main)
    \/ \E account \in NewAccounts : addAccount(Main, account)
    \/ \E email \in Emails : deleteAccount(Main, email)
    \/ writeFileSync(Main)
    \/ writeJsonFileAtomic(Main)
    \/ crash(Main)

StoreSpec == StoreInit /\ [][StoreNext]_vars

\* two processes on one config directory, which holds no accounts file or
\* one written by an earlier run
WritersInit ==
    /\ \E file \in {NoFile, File(JSONstringify(<<OldAccount("a@example.com")>>))} :
        /\ fs = [path \in Paths |-> IF path = accountsFile THEN file ELSE NoFile]
        /\ configDir = IF file.exists THEN Dir(DirOwnerOnly) ELSE NoDir
        /\ committed = file
    /\ StoreDown
    /\ FlowInit
    /\ CliIdle

WritersNext ==
    \/ \E pid \in Procs : construct(pid)
    \/ \E pid \in Procs : \E e \in Emails : addAccount(pid, EmailAccount(e, pid))
    \/ \E pid \in Procs : \E email \in Emails : deleteAccount(pid, email)
    \/ \E pid \in Procs : writeFileSync(pid)
    \/ \E pid \in Procs : writeJsonFileAtomic(pid)
    \/ \E pid \in Procs : crash(pid)

WritersSpec == WritersInit /\ [][WritersNext]_vars

\* what a credentials or config file left by an earlier run or by an editor
\* may hold: not JSON, or JSON that is not an object
CorruptTexts ==
    { <<>>,
      <<LBracket>>,
      <<stringifyValue(JsonNull)>>,
      <<stringifyValue(JsonNumber)>>,
      <<LBracket, RBracket>> }

CredentialsTexts ==
    CorruptTexts \cup {<<stringifyValue(Credentials("client-id", "client-secret"))>>}

ConfigTexts ==
    CorruptTexts \cup {<<stringifyValue(JsonObject)>>,
                       <<stringifyValue(Config("a@example.com"))>>}

\* the modes a directory or a file not made by the store may have
DirModes == {DirOwnerOnly, "0755"}

\* the one file of the pair that may be corrupt, the other being sound
ValidCredentialsText == <<stringifyValue(Credentials("client-id", "client-secret"))>>

ValidConfigText == <<stringifyValue(Config("a@example.com"))>>

FilePairs ==
    {<<t, ValidConfigText>> : t \in CredentialsTexts}
        \cup {<<ValidCredentialsText, t>> : t \in ConfigTexts}

\* one process and the three files of the config directory, which is
\* missing, or empty, or holds the three files as an earlier version or an
\* editor left them, readable by everyone
FilesInit ==
    /\ \E d \in {NoDir} \cup {Dir(m) : m \in DirModes} :
       \E texts \in FilePairs :
       \E has \in {{}, LiveFiles} :
        /\ configDir = d
        /\ ~d.exists => has = {}
        /\ fs = [path \in Paths |->
                    IF path \notin has THEN NoFile
                    ELSE IF path = accountsFile
                    THEN FileWithMode(JSONstringify(<<OldAccount("a@example.com")>>), "0644")
                    ELSE IF path = credentialsFile THEN FileWithMode(texts[1], "0644")
                    ELSE FileWithMode(texts[2], "0644")]
        /\ committed = fs[accountsFile]
    /\ StoreDown
    /\ FlowInit
    /\ CliIdle

FilesNext ==
    \/ construct(Main)
    \/ addAccount(Main, EmailAccount("b@example.com", "new"))
    \/ setCredentials(Main, "client-id", "client-secret")
    \/ getCredentials(Main)
    \/ getDefaultAccount(Main)
    \/ \E email \in Emails : setDefaultAccount(Main, email)
    \/ clearDefaultAccount(Main)
    \/ writeFileSync(Main)
    \/ writeJsonFileAtomic(Main)
    \/ crash(Main)

FilesSpec == FilesInit /\ [][FilesNext]_vars

\* the account records a program hands to setAccountTokens
GivenAccounts ==
    {[EmailAccount(e, "given") EXCEPT !.accessToken = "access"] : e \in Emails}

\* a program that constructs one GmailService, in a directory that is
\* missing or holds the accounts file of an earlier run
ServiceInit ==
    /\ \E file \in {NoFile, FileWithMode(JSONstringify(<<OldAccount("a@example.com")>>), OwnerOnly)} :
        /\ fs = [path \in Paths |-> IF path = accountsFile THEN file ELSE NoFile]
        /\ configDir = IF file.exists THEN Dir(DirOwnerOnly) ELSE NoDir
        /\ committed = file
    /\ StoreDown
    /\ FlowInit
    /\ CliIdle

ServiceNext ==
    \/ \E inMemory \in BOOLEAN : newGmailService(inMemory)
    \/ \E email \in Emails : getGmailClient(email)
    \/ \E email \in Emails : addGmailAccountAuthorized(email)
    \/ \E email \in Emails : deleteAccountAndClient(email)
    \/ \E account \in GivenAccounts : setAccountTokens(account)
    \/ \E email \in Emails : updateGmailAccountAuthorized(email)
    \/ writeFileSync(Main)
    \/ writeJsonFileAtomic(Main)

ServiceSpec == ServiceInit /\ [][ServiceNext]_vars

\* a test driving one MockGmailService
MockInit ==
    /\ FlowInit
    /\ CliIdle
    /\ StoreIdle

MockNext ==
    \/ \E threadId \in MockThreadIds : setThread(threadId)
    \/ \E query \in MockQueries : setSearchResults(query)
    \/ \E labels \in LabelLists : setLabels(labels)
    \/ \E method \in ErrorMethods, once \in BOOLEAN : setError(method, ErrorOf(once), once)
    \/ clearErrors
    \/ \E method \in ErrorMethods : clearError(method)
    \/ reset
    \/ searchThreads("is:unread")
    \/ \E threadId \in MockThreadIds : getThread(threadId)
    \/ mockCreateLabel("Work")

MockSpec == MockInit /\ [][MockNext]_vars

\* ------------------------------------------------------------ the claims

\* the state token attempt a generated (Null before generateAuthUrl ran)
StateOf(a) == sessions[a].state

\* the callback's state is absent, or differs from the attempt's state token
BadState(cb) == cb.query.state = Null \/ cb.query.state # StateOf(cb.att)

\* C1, as stated: every callback whose state is absent or differs from the
\* attempt's state token fails the attempt with "OAuth state mismatch".
C1_AnyBadStateIsMismatch ==
    (lastCb # Null /\ BadState(lastCb))
        => /\ lastCb.verdict = "OAuth state mismatch"
           /\ results[lastCb.att].settled
           /\ results[lastCb.att].error = "OAuth state mismatch"

\* C1, amended: a callback that carries an authorization code (and, in the
\* interactive transport, no error parameter) and whose state is absent or
\* differs from the attempt's state token fails the attempt with "OAuth state
\* mismatch"; and for every callback with such a state, whatever else it
\* carries, no request goes to the token endpoint and authorize() returns no
\* refresh token from it.
C1_StateMismatchFails ==
    /\ (/\ lastCb # Null
        /\ BadState(lastCb)
        /\ lastCb.query.code # Null
        /\ (lastCb.manual \/ ~lastCb.query.error))
         => /\ lastCb.verdict = "OAuth state mismatch"
            /\ results[lastCb.att].settled
            /\ ~results[lastCb.att].returned
            /\ results[lastCb.att].error = "OAuth state mismatch"
    /\ (lastCb # Null /\ BadState(lastCb))
         => /\ lastCb.verdict # "exchange"
            /\ ~results[lastCb.att].returned
    /\ \A x \in inflight :
            x.query.state # Null /\ x.query.state = StateOf(x.att)
    /\ \A a \in Attempts :
            (results[a].settled /\ results[a].returned)
                => /\ results[a].via.src = "callback"
                   /\ results[a].via.state # Null
                   /\ results[a].via.state = StateOf(a)

\* C1 witness: the second attempt (interactive) receives this attempt's valid
\* code with the first attempt's state, and fails with the mismatch error.
C1_Witness ==
    /\ lastCb # Null
    /\ lastCb.att = 2
    /\ ~lastCb.manual
    /\ ~lastCb.query.error
    /\ lastCb.query.code = CodeOf(2)
    /\ lastCb.query.state = StateOf(1)
    /\ StateOf(1) # Null
    /\ results[2].settled
    /\ results[2].error = "OAuth state mismatch"

\* C9, as stated: once authorize() has settled, in either transport, no timer
\* is pending, no listener is open, and state token and verifier are null.
C9_TornDownOnceSettled ==
    pc = "settled"
        => /\ timers = {}
           /\ timeoutId = {}
           /\ listeners = {}
           /\ server = {}
           /\ expectedState = Null
           /\ codeVerifier = Null

\* C10: two attempts never share a state token or a code verifier, and a
\* callback is validated, and a code redeemed, only against the values its own
\* attempt generated (or against nothing, once they are cleared).
C10_FreshSessionPerAttempt ==
    /\ \A a, b \in 1..attempt :
            (a < b /\ StateOf(a) # Null /\ StateOf(b) # Null)
                => /\ StateOf(a) # StateOf(b)
                   /\ sessions[a].verifier # sessions[b].verifier
    /\ lastCb # Null => lastCb.expected \in {Null, StateOf(lastCb.att)}
    /\ \A x \in inflight : x.codeVerifier = sessions[x.att].verifier
    /\ pc \in {"waiting", "prompt"}
            => /\ expectedState \in {Null, StateOf(attempt)}
               /\ codeVerifier \in {Null, sessions[attempt].verifier}

\* C10 witness: a second attempt, after a manual first one, has generated its
\* values and was sent the first attempt's state.
C10_Witness ==
    /\ attempt = 2
    /\ StateOf(1) # Null
    /\ StateOf(2) # Null
    /\ lastCb # Null
    /\ lastCb.att = 2
    /\ lastCb.query.state = StateOf(1)
    /\ lastCb.verdict = "OAuth state mismatch"
    /\ results[1].settled
    /\ results[1].via.src = "callback"

\* the account a command runs on: --account, or else the default account
Selected == IF argv.account # NoEmail THEN argv.account ELSE defaultAccount

\* the command ran on an account of the store
OnRegistered == Selected # NoEmail /\ accounts[Selected].registered

\* the calls of operation op made to the service or to the Gmail API
CallsOf(to, op) == SelectSeq(calls, LAMBDA c : c.to = to /\ c.op = op)

GmailCalls == SelectSeq(calls, LAMBDA c : c.to = "gmail")

\* C2, as stated: "send" and "delete" always end with the restricted outcome,
\* exit status 2, and never call the Gmail API, whatever the account selected
\* and whether or not a default account is configured.
C2_SendDeleteAlwaysRestricted ==
    (cliPc = "exited" /\ argv.command \in {"send", "delete"})
        => /\ exitCode = 2
           /\ report.kind = "RESTRICTED"
           /\ GmailCalls = <<>>

\* l is TRASH or SPAM, ignoring case and surrounding blanks
IsTrashOrSpam(l) == l.text \in {"trash", "spam"}

Existing(l) ==
    \E lab \in GmailLabels : toLowerCase(lab.name) = toLowerCase(l) \/ lab.id = l

\* the id l stands for: that of the label so named, else l itself
IdOf(l) ==
    IF \E lab \in GmailLabels : toLowerCase(lab.name) = toLowerCase(l)
    THEN (CHOOSE lab \in GmailLabels : toLowerCase(lab.name) = toLowerCase(l)).id
    ELSE l

\* C4: with --allow-dangerous-labels, an --add list with TRASH or SPAM in it
\* whose labels all exist reaches modifyLabels whole: one id per requested
\* label, in the order given, each the id its label stands for.
C4_AllowedAddPassedThrough ==
    (/\ cliPc = "exited"
     /\ argv.command = "labels"
     /\ argv.allow
     /\ OnRegistered
     /\ \E i \in 1..Len(argv.add) : IsTrashOrSpam(argv.add[i])
     /\ \A i \in 1..Len(argv.add) : Existing(argv.add[i]))
        => /\ Len(CallsOf("service", "modifyLabels")) = 1
           /\ LET given == CallsOf("service", "modifyLabels")[1].add IN
                /\ Len(given) = Len(argv.add)
                /\ \A i \in 1..Len(argv.add) : given[i] = IdOf(argv.add[i])

\* C4 witness: "Spam,Work" with the flag reaches modifyLabels as SPAM, Label_1
\* and the thread is modified.
C4_Witness ==
    /\ cliPc = "exited"
    /\ argv.command = "labels"
    /\ argv.allow
    /\ argv.add = <<Str("spam", "mixed", FALSE), Str("work", "mixed", FALSE)>>
    /\ Len(CallsOf("service", "modifyLabels")) = 1
    /\ CallsOf("service", "modifyLabels")[1].add =
            <<Str("spam", "upper", FALSE), Str("label_1", "mixed", FALSE)>>
    /\ Len(CallsOf("gmail", "threads.modify")) > 0
    /\ exitCode = 0

\* C5, as stated: for an account with no recorded scopes, createLabel is
\* refused before any remote call: labels.create is never requested.
C5_UnknownScopesCreateRefused ==
    (/\ cliPc = "exited"
     /\ argv.command = "labels create"
     /\ OnRegistered
     /\ accounts[Selected].scopes = {})
        => /\ CallsOf("gmail", "labels.create") = <<>>
           /\ exitCode # 0

\* C6, as stated: for an account with the read-only scope alone, modifyLabels
\* with labels to add is refused and no threads.modify request is made.
C6_ReadOnlyModifyRefused ==
    (/\ cliPc = "exited"
     /\ argv.command = "labels"
     /\ OnRegistered
     /\ accounts[Selected].scopes = READONLY_GMAIL_SCOPES
     /\ Len(CallsOf("service", "modifyLabels")) > 0
     /\ CallsOf("service", "modifyLabels")[1].add # <<>>)
        => CallsOf("gmail", "threads.modify") = <<>>

\* C7: the live accounts file always holds, whole, what the last write whose
\* rename completed wrote (or what it held at the start); a write cut short
\* before its rename leaves it as it was, and it is never seen half written.
C7_LiveFileIsLastCompletedWrite == fs[accountsFile] = committed

\* C7 witness: a first write completed, a second one was cut short with its
\* text half written, and the live file holds the first write's content.
C7_Witness ==
    /\ storePc[Main] = "down"
    /\ fs[tempPath(accountsFile, Main)] =
            File(<<LBracket, stringifyValue(EmailAccount("a@example.com", "new"))>>)
    /\ fs[accountsFile] =
            File(JSONstringify(<<EmailAccount("a@example.com", "new")>>))

\* a text that is a JSON list of account records
IsAccountList(text) ==
    /\ Len(text) >= 2
    /\ text[1] = LBracket
    /\ text[Len(text)] = RBracket
    /\ \A i \in 2..(Len(text) - 1) :
            /\ text[i].json = "object"
            /\ "email" \in DOMAIN text[i].props
            /\ text[i].props["email"] \in Emails

\* C8, as stated: construction fails whenever the accounts file exists and is
\* not a JSON list of account records, and succeeds with no account when the
\* file is missing.
C8_MalformedFileFailsConstruction ==
    [][(storePc[Main] = "down" /\ storePc'[Main] # "down")
        => /\ (fs[accountsFile].exists /\ ~IsAccountList(fs[accountsFile].text))
                => storePc'[Main] = "failed"
           /\ ~fs[accountsFile].exists
                => (storePc'[Main] = "ready" /\ storeAccounts'[Main] = <<>>)]_vars

\* the options argument has the property and it is true
ExplicitlyGranted == "includeGrantedScopes" \in options.has /\ options.includeGrantedScopes

\* C11: every authorization URL, for any options and either transport,
\* carries the attempt's state token, the S256 challenge of the attempt's
\* verifier and offline access, asks for the scopes the flow was given (the
\* live set when none), and has include_granted_scopes=true only when the
\* options set includeGrantedScopes to true.
C11_AuthUrlParameters ==
    \A a \in Attempts :
        sessions[a].url # Null
            => LET u == sessions[a].url IN
                /\ u.state # Null
                /\ u.state = sessions[a].state
                /\ u.code_challenge = base64Url(sha256(sessions[a].verifier))
                /\ u.code_challenge_method = "S256"
                /\ u.access_type = "offline"
                /\ u.scope = (IF "scopes" \in options.has THEN options.scopes
                              ELSE {GMAIL_MODIFY_SCOPE, GMAIL_LABELS_SCOPE})
                /\ u.include_granted_scopes = ExplicitlyGranted

\* C11 witness: a flow given the read-only scopes and nothing else has built
\* the URLs of an interactive and of a manual attempt.
C11_Witness ==
    /\ options.has = {"scopes"}
    /\ options.scopes = {GMAIL_READONLY_SCOPE}
    /\ attempt = 2
    /\ manual
    /\ sessions[1].url # Null
    /\ sessions[2].url # Null
    /\ results[1].settled
    /\ results[1].via.src = "timeout"
    /\ ~sessions[2].url.include_granted_scopes

\* C12: a request goes to the token endpoint only for a callback with an
\* authorization code and with the state token of the attempt it arrives in,
\* while a verifier is held; the verifier sent is the one that attempt
\* generated, whose S256 challenge is in that attempt's authorization URL.
C12_ExchangeOnlyForValidCallback ==
    /\ \A x \in inflight :
        /\ x.att \in 1..attempt
        /\ x.query.code # Null
        /\ x.query.state # Null
        /\ x.query.state = sessions[x.att].state
        /\ x.codeVerifier # Null
        /\ x.codeVerifier = sessions[x.att].verifier
        /\ sessions[x.att].url.code_challenge = base64Url(sha256(x.codeVerifier))
    /\ \A a \in Attempts :
        tokenCalls[a] > 0 => sessions[a].state # Null
    /\ (lastCb # Null /\ lastCb.verdict = "exchange")
        => /\ lastCb.query.code # Null
           /\ lastCb.query.state = sessions[lastCb.att].state
           /\ tokenCalls[lastCb.att] > 0

\* C12 witness: in a second, interactive attempt a callback with that
\* attempt's code and state has its code sent with the second verifier.
C12_Witness ==
    \E x \in inflight :
        /\ x.att = 2
        /\ ~x.manual
        /\ sessions[1].verifier # Null
        /\ x.query.code = CodeOf(2)
        /\ x.codeVerifier = sessions[2].verifier
        /\ tokenCalls[2] = 1

\* C13, as stated: in either transport a callback with an error parameter
\* fails the attempt as cancelled or denied and starts no token exchange,
\* whatever code and state it also carries.
C13_ErrorParameterCancels ==
    (lastCb # Null /\ lastCb.query.error)
        => /\ lastCb.verdict = "access_denied"
           /\ results[lastCb.att].settled
           /\ ~results[lastCb.att].returned

\* C14: a token exchange that succeeds without a refresh token makes
\* authorize() fail with "No refresh token received"; authorize() returns only
\* a refresh token, never nothing, and only the one the token endpoint issued
\* for the code of that same attempt.
C14_RefreshTokenRequired ==
    \A a \in Attempts :
        results[a].settled
            => /\ (results[a].result.success /\ results[a].result.refreshToken = Null)
                    => /\ ~results[a].returned
                       /\ results[a].error = "No refresh token received"
               /\ results[a].returned
                    => /\ results[a].result.success
                       /\ results[a].refreshToken # Null
                       /\ results[a].refreshToken = RefreshTokenOf(CodeOf(a))
                       /\ results[a].via.src = "callback"
                       /\ tokenCalls[a] > 0

\* C14 witness: the first attempt returned its refresh token; the second
\* one's exchange succeeded without one and authorize() failed.
C14_Witness ==
    /\ results[1].settled
    /\ results[1].returned
    /\ results[1].refreshToken = RefreshTokenOf(CodeOf(1))
    /\ results[2].settled
    /\ results[2].result.success
    /\ ~results[2].returned
    /\ results[2].error = "No refresh token received"

\* C15, as stated: every interactive attempt eventually concludes; when
\* nothing else concludes it, its timer does, also while a token exchange is
\* in flight.
C15_InteractiveAttemptConcludes ==
    \A a \in Attempts :
        (attempt = a /\ ~manual /\ pc \in {"binding", "waiting"})
            ~> results[a].settled

\* the authorization flows a command ran
FlowCalls == SelectSeq(calls, LAMBDA c : c.to = "flow")

\* C16, as stated: the flow "accounts upgrade" runs asks for exactly the live
\* scopes with include_granted_scopes=false and prompt=consent; the flow
\* "accounts add" runs asks for exactly the read-only scopes with --readonly
\* and exactly the live scopes without, with include_granted_scopes=false.
C16_RequestedScopes ==
    (cliPc = "exited" /\ argv.command \in {"accounts add", "accounts upgrade"})
        => \A i \in 1..Len(FlowCalls) :
            LET opts == FlowCalls[i].options IN
            /\ ~includeGrantedScopesOf(opts)
            /\ argv.command = "accounts upgrade"
                => /\ scopesOf(opts) = {GMAIL_MODIFY_SCOPE, GMAIL_LABELS_SCOPE}
                   /\ promptOf(opts) = "consent"
            /\ argv.command = "accounts add"
                => scopesOf(opts) = (IF argv.readonly THEN {GMAIL_READONLY_SCOPE}
                                     ELSE {GMAIL_MODIFY_SCOPE, GMAIL_LABELS_SCOPE})

IsReadOnly(account) == account.registered /\ account.scopes = {GMAIL_READONLY_SCOPE}

IsLive(account) ==
    account.registered /\ account.scopes = {GMAIL_MODIFY_SCOPE, GMAIL_LABELS_SCOPE}

\* the process that has just exited ran command c on e-mail e with success
JustRan(c, e) ==
    /\ cliPc = "shell"
    /\ cliPc' = "exited"
    /\ argv'.command = c
    /\ argv'.account = e
    /\ exitCode' = 0

\* C17: an e-mail gets a record only by a successful "accounts add" for it; a
\* record's scopes change only by a successful "accounts upgrade" for it, and
\* then to the live scopes; no step takes a record from live to read-only;
\* the other commands (labels, url, send, delete, config) change no record.
C17_TierTransitions ==
    [][/\ \A e \in Emails :
            /\ (~accounts[e].registered /\ accounts'[e].registered)
                    => JustRan("accounts add", e) /\ argv'.authorized
            /\ (accounts[e].registered /\ accounts'[e].registered
                    /\ accounts'[e] # accounts[e])
                    => /\ JustRan("accounts upgrade", e)
                       /\ argv'.authorized
                       /\ IsLive(accounts'[e])
            /\ ~(IsLive(accounts[e]) /\ IsReadOnly(accounts'[e]))
       /\ (cliPc' = "exited"
            /\ argv'.command \notin {"accounts add", "accounts upgrade", "accounts remove"})
                => accounts' = accounts
      ]_vars

\* C17 witness: b@example.com was added, and a@example.com has just been
\* upgraded to the live scopes.
C17_Witness ==
    /\ cliPc = "exited"
    /\ argv.command = "accounts upgrade"
    /\ argv.account = "a@example.com"
    /\ exitCode = 0
    /\ IsLive(accounts["a@example.com"])
    /\ accounts["b@example.com"].registered

C20_RemovalClearsDefault ==
    [][\A e \in Emails :
        (accounts[e].registered /\ ~accounts'[e].registered /\ defaultAccount = e)
            => defaultAccount' # e
      ]_vars

\* the threads.modify requests made for thread t
ModifyCallsFor(t) ==
    SelectSeq(calls, LAMBDA c : c.to = "gmail" /\ c.op = "threads.modify" /\ c.thread = t)

\* C26: modifyLabels returns one result per thread id, in the order given; a
\* thread whose request the API fails gets a failed result with the error
\* message, every other thread a successful one, and every thread is
\* attempted, those after a failed one too.
C26_OneResultPerThread ==
    (/\ cliPc = "exited"
     /\ argv.command = "labels"
     /\ Len(CallsOf("service", "modifyLabels")) = 1)
        => /\ Len(report.results) = argv.threads
           /\ \A t \in 1..argv.threads :
                /\ report.results[t].threadId = t
                /\ (argv.add # <<>> \/ argv.remove # <<>>)
                    => /\ Len(ModifyCallsFor(t)) >= 1
                       /\ report.results[t].success = (t \notin argv.fails)
                       /\ (t \in argv.fails) => report.results[t].error # ""
                /\ (argv.add = <<>> /\ argv.remove = <<>>)
                    => report.results[t].success

\* C26 witness: of two threads the first fails and the second is modified.
C26_Witness ==
    /\ cliPc = "exited"
    /\ argv.command = "labels"
    /\ argv.threads = 2
    /\ argv.fails = {1}
    /\ argv.add # <<>>
    /\ Len(report.results) = 2
    /\ ~report.results[1].success
    /\ report.results[1].error = "remote error"
    /\ report.results[2].success
    /\ Len(ModifyCallsFor(2)) = 1

\* the command was blocked by policy: send, delete, or a TRASH or SPAM in
\* --add without --allow-dangerous-labels
PolicyBlocked ==
    \/ argv.command \in {"send", "delete"}
    \/ /\ argv.command = "labels"
       /\ ~argv.allow
       /\ \E i \in 1..Len(argv.add) : IsTrashOrSpam(argv.add[i])

\* C27, as stated: every command blocked by policy exits with status 2, and
\* every other command exits with 0 or, when it fails, 1.
C27_RestrictedExitStatus ==
    cliPc = "exited"
        => /\ PolicyBlocked => exitCode = 2
           /\ ~PolicyBlocked => exitCode \in {0, 1}

\* the scopes the authorization server granted to a flow: here, all it asked for
Granted(flowCall) == scopesOf(flowCall.options)

\* C28, as stated: after a successful authorization the scope list recorded
\* on the account is the set of scopes the authorization server granted.
C28_GrantedScopesRecorded ==
    (/\ cliPc = "exited"
     /\ argv.command \in {"accounts add", "accounts upgrade"}
     /\ exitCode = 0)
        => /\ Len(FlowCalls) = 1
           /\ accounts[argv.account].registered
           /\ accounts[argv.account].scopes = Granted(FlowCalls[1])

\* a request for a path other than "/" is served
OtherPathRequest == \E pathname \in OtherPaths : \E q \in CallbackQueries : request(pathname, q)

\* C29: a request to the listener for a path other than "/" is answered with
\* 404 and changes nothing of the attempt: the timer stays armed, the listener
\* stays open, the expected state and the verifier are kept, no exchange is
\* started and no outcome is decided.
C29_OtherPathsAnswered404 ==
    [][OtherPathRequest
        => /\ notFound' = notFound + 1
           /\ UNCHANGED <<pc, server, listeners, timeoutId, timers, expectedState,
                          codeVerifier, sessions, inflight, results, tokenCalls,
                          lastCb, nCallbacks>>]_vars

\* C29 witness: a 404 was answered while the attempt waits for its callback,
\* timer armed and listener open.
C29_Witness ==
    /\ notFound = 1
    /\ pc = "waiting"
    /\ ~manual
    /\ attempt \in listeners
    /\ timeoutId = {attempt}
    /\ attempt \in timers
    /\ expectedState = sessions[attempt].state
    /\ ~results[attempt].settled

\* the entries that are account records
AccountRecords(m) ==
    SelectSeq(m, LAMBDA account : account.json = "object" /\ account.email \in Emails)

\* C21: once the write of addAccount has completed, a new AccountStorage on
\* the same directory loads without a throw and its getAccount gives, for
\* every record held, a record equal in email, clientId, clientSecret,
\* refreshToken, accessToken and scopes; a record written without scopes
\* loads without scopes.
C21_AccountRecordsRoundTrip ==
    \A pid \in Procs :
        storePc[pid] = "ready"
            => LET reloaded == loadAccounts(fs[accountsFile])
                   held == AccountRecords(storeAccounts[pid])
               IN /\ ~reloaded.threw
                  /\ Len(AccountRecords(reloaded.accounts)) = Len(held)
                  /\ \A i \in 1..Len(held) :
                        LET got == storageGetAccount(reloaded.accounts, held[i].email).data[1]
                        IN /\ got.json = "object"
                           /\ got.email = held[i].email
                           /\ got.clientId = held[i].clientId
                           /\ got.clientSecret = held[i].clientSecret
                           /\ got.refreshToken = held[i].refreshToken
                           /\ got.accessToken = held[i].accessToken
                           /\ got.scopes = held[i].scopes

\* C21 witness: a process that started after a crashed write (its temporary
\* file is still there) holds the two records an earlier process wrote: one
\* with an access token and no scopes, one with an empty scope list.
C21_Witness ==
    /\ storePc[Main] = "ready"
    /\ fs[tempPath(accountsFile, Main)].exists
    /\ storeAccounts[Main] =
        <<[EmailAccount("a@example.com", "new") EXCEPT !.accessToken = "access"],
          [EmailAccount("b@example.com", "new") EXCEPT !.scopes = ScopeList(<<>>)]>>

\* C22: every completed write of the accounts, credentials or config file
\* leaves that file with mode 0600, whatever mode the file it replaces had;
\* the config directory gets mode 0700 when the store creates it, and one
\* that is there is never changed.
C22_OwnerOnlyPermissions ==
    [][/\ \A pid \in Procs :
            (storePc[pid] = "writing" /\ storePc'[pid] = "ready")
                => /\ fs'[job[pid].filePath].exists
                   /\ fs'[job[pid].filePath].mode = OwnerOnly
                   /\ fs'[job[pid].filePath].text = job[pid].text
       /\ (~configDir.exists /\ configDir'.exists) => configDir'.mode = DirOwnerOnly
       /\ configDir.exists => configDir' = configDir
      ]_vars

\* C22 witness: in a directory that was there with mode 0755, the three
\* files, which were readable by everyone, have been written again and are
\* for their owner only.
C22_Witness ==
    /\ configDir = Dir("0755")
    /\ storePc[Main] = "ready"
    /\ fs[accountsFile] =
        File(JSONstringify(<<OldAccount("a@example.com"), EmailAccount("b@example.com", "new")>>))
    /\ fs[credentialsFile].mode = OwnerOnly
    /\ fs[configFile] = File(<<stringifyValue(Config("b@example.com"))>>)

\* C23: with two processes writing the accounts file of one directory, the
\* live file is at every moment what it was at the start or the whole output
\* of the write whose rename came last, and each temporary file holds data
\* of its own writer only.
C23_ConcurrentWritersNeverMix ==
    /\ fs[accountsFile] = committed
    /\ (committed.exists => JSONparse(committed.text).ok)
    /\ \A pid \in Procs :
        storePc[pid] = "writing"
            => fs[tempPath(accountsFile, pid)] =
                    File(SubSeq(job[pid].text, 1, job[pid].done))

\* C23 witness: p2 has completed a write and the live file is its whole
\* output, while p1, which holds other accounts, is half way through writing
\* its own.
C23_Witness ==
    /\ storePc["p2"] = "ready"
    /\ storeAccounts["p2"] = <<EmailAccount("b@example.com", "p2")>>
    /\ fs[accountsFile] = File(JSONstringify(storeAccounts["p2"]))
    /\ storePc["p1"] = "writing"
    /\ storeAccounts["p1"] = <<EmailAccount("a@example.com", "p1")>>
    /\ job["p1"].done = 2

\* the file is there and does not hold a JSON object
Corrupt(file) ==
    /\ file.exists
    /\ LET parsed == JSONparse(file.text) IN
        ~parsed.ok \/ parsed.isArray \/ parsed.data[1].json # "object"

\* C30, as stated: with a credentials file that is corrupt getCredentials
\* returns null; with a config file that is corrupt getDefaultAccount returns
\* null, and setDefaultAccount and clearDefaultAccount go on as if the config
\* were empty; corrupt meaning not JSON, or JSON that is not an object.
C30_CorruptFilesTreatedAsAbsent ==
    [][/\ (getCredentials(Main) /\ Corrupt(fs[credentialsFile]))
            => ret' = Returned("getCredentials", JsValue(JsonNull))
       /\ (getDefaultAccount(Main) /\ Corrupt(fs[configFile]))
            => ret' = Returned("getDefaultAccount", JsValue(JsonNull))
       /\ \A email \in Emails :
            (setDefaultAccount(Main, email) /\ Corrupt(fs[configFile]))
                => /\ ~ret'.threw
                   /\ job'[Main].text = <<stringifyValue(Config(email))>>
       /\ (clearDefaultAccount(Main) /\ Corrupt(fs[configFile]))
            => /\ ~ret'.threw
               /\ job'[Main].text = <<stringifyValue(JsonObject)>>
      ]_vars

\* the record the service holds for email, as a token bundle
CurrentBundle(email) == Bundle(storageGetAccount(storeAccounts[Main], email).data[1])

HasRecord(email) == ~IsNull(storageGetAccount(storeAccounts[Main], email))

\* C24: a cached client of an email was built from the record the email has
\* now, and a remote operation uses a client built from that record: a
\* record replaced by setAccountTokens or by an upgrade, or deleted, takes
\* its cached client with it.
C24_ClientCacheCoherent ==
    /\ [](\A e \in Emails :
            gmailClients[e] # {}
                => HasRecord(e) /\ gmailClients[e] = {CurrentBundle(e)})
    /\ [][\A e \in Emails :
            (getGmailClient(e) /\ HasRecord(e))
                => lastClient' = [email |-> e, bundle |-> CurrentBundle(e)]]_vars

\* C24 witness: the client cached for a@example.com from the record of the
\* accounts file was dropped, and the last remote operation used a client
\* built from the record of the first authorization made since.
C24_Witness ==
    /\ dropped["a@example.com"]
    /\ HasRecord("a@example.com")
    /\ CurrentBundle("a@example.com").refreshToken = IssuedToken(1)
    /\ gmailClients["a@example.com"] = {CurrentBundle("a@example.com")}
    /\ lastClient = [email |-> "a@example.com", bundle |-> CurrentBundle("a@example.com")]

\* C25, as stated: a GmailService constructed with in-memory accounts never
\* initialises AccountStorage and leaves the config directory and its files
\* alone, and a lookup of an email it has no record of fails with "Account
\* '<email>' not found".
C25_InMemoryServiceNeverTouchesStorage ==
    [][/\ (serviceOptions'.constructed /\ serviceOptions'.accounts)
            => /\ storePc'[Main] = "down"
               /\ configDir' = configDir
               /\ fs' = fs
       /\ \A e \in Emails :
            (getGmailClient(e) /\ ~HasRecord(e))
                => ret' = Threw("Account '" \o e \o "' not found")
      ]_vars

\* C31: whenever the store is at rest, a new AccountStorage on the same
\* directory would list the accounts held in memory, in the same order;
\* deleteAccount returns true exactly when the email had a record, and when
\* it returns false nothing is written.
C31_MutatorsPersist ==
    /\ [](\A pid \in Procs :
            storePc[pid] = "ready"
                => LET reloaded == loadAccounts(fs[accountsFile]) IN
                    ~reloaded.threw /\ reloaded.accounts = storeAccounts[pid])
    /\ [][\A email \in Emails :
            deleteAccount(Main, email)
                => LET present == \E i \in 1..Len(storeAccounts[Main]) :
                                    storeAccounts[Main][i].email = email
                   IN /\ ret'.value = JsValue(IF present THEN JsonTrue ELSE JsonFalse)
                      /\ ~present => (fs' = fs /\ job' = job /\ storePc' = storePc)
                      /\ present => storePc'[Main] = "writing"]_vars

\* C31 witness: of the two accounts loaded, a@example.com was deleted, which
\* returned true, and the file holds the one that is left.
C31_Witness ==
    /\ storePc[Main] = "ready"
    /\ ret = Returned("deleteAccount", JsValue(JsonTrue))
    /\ storeAccounts[Main] = <<OldAccount("b@example.com")>>
    /\ fs[accountsFile] = File(JSONstringify(<<OldAccount("b@example.com")>>))

\* a call of the method was recorded in this step
CallOf(method) == Len(mockCalls'[method]) = Len(mockCalls[method]) + 1

\* the errors configured for the method, in order
ErrorsOf(errors, method) == SelectSeq(errors, LAMBDA e : e.method = method)

ClearErrorKeepsOthers ==
    \A method \in MockMethods :
        clearError(method)
            => /\ ErrorsOf(mockErrors', method) = <<>>
               /\ \A other \in MockMethods \ {method} :
                    ErrorsOf(mockErrors', other) = ErrorsOf(mockErrors, other)

\* C32: a call of a method throws a configured error exactly when one is
\* configured for the method, and it throws the one configured first.  When
\* no other error was configured for the method at the time of setError: with
\* once = true the next call of the method throws the error and the calls
\* after it do not; with once = false every call throws it until
\* clearError(method), clearErrors() or reset().  clearError(method) removes
\* all errors of that method and none of another method.
C32_ConfiguredErrors ==
    [][/\ \A method \in MockMethods :
            CallOf(method)
                => /\ (mockRet'.outcome = "error" /\ mockRet'.value # "Thread not found")
                        <=> ErrorsOf(mockErrors, method) # <<>>
                   /\ ErrorsOf(mockErrors, method) # <<>>
                        => mockRet' = MockThrew(method, ErrorsOf(mockErrors, method)[1].error)
                   /\ (alone[method] /\ lastSet[method] = "once")
                        => mockRet' = MockThrew(method, ErrorOf(TRUE))
                   /\ (alone[method] /\ lastSet[method] = "spent")
                        => mockRet' # MockThrew(method, ErrorOf(TRUE))
                   /\ (alone[method] /\ lastSet[method] = "always")
                        => mockRet' = MockThrew(method, ErrorOf(FALSE))
       /\ ClearErrorKeepsOthers
      ]_vars

\* C32 witness: an error set once for searchThreads was thrown by the first
\* search, the second search returned, and the error of getThread is still
\* configured.
C32_Witness ==
    /\ alone["searchThreads"]
    /\ lastSet["searchThreads"] = "spent"
    /\ Len(mockCalls["searchThreads"]) = 2
    /\ mockRet = MockReturned("searchThreads", "")
    /\ mockErrors = <<MockError("getThread", ErrorOf(FALSE), FALSE)>>

\* C32, as stated: after setError(method, error, true) the next call of the
\* method throws the error and the calls after it do not; after
\* setError(method, error, false) every call of the method throws the error
\* until the errors of the method are cleared; clearError(method) removes the
\* errors of that method only.
C32_AsStated ==
    [][/\ \A method \in MockMethods :
            CallOf(method)
                => /\ lastSet[method] = "once"
                        => mockRet' = MockThrew(method, ErrorOf(TRUE))
                   /\ lastSet[method] = "spent"
                        => mockRet' # MockThrew(method, ErrorOf(TRUE))
                   /\ lastSet[method] = "always"
                        => mockRet' = MockThrew(method, ErrorOf(FALSE))
       /\ ClearErrorKeepsOthers
      ]_vars

\* C33, as stated: the id of a label createLabel returns differs from the id
\* of every other label in the mock's list.
C33_CreatedLabelIdsUnique ==
    [][(mockCreateLabel("Work") /\ mockRet'.outcome = "returned")
            => \A i \in 1..(Len(mockLabels') - 1) :
                    mockLabels'[i].id # mockRet'.value
      ]_vars

\* C34: reset() leaves every field of the mock as the constructor does, so
\* that what the mock returns and records from then on is what a new
\* MockGmailService returns and records.
C34_ResetGivesNewMock ==
    [][reset => Mock' = NewMock]_vars

\* C34 witness: a label was created as Label_1, and the mock was reset
\* afterwards.
C34_Witness ==
    /\ Mock = NewMock
    /\ mockRet = MockReturned("createLabel", "Label_1")
    /\ lastSet = [method \in MockMethods |-> "none"]

\* an "accounts add" or "accounts upgrade" process ran the authorization flow
\* and the flow failed
AuthorizationFailed ==
    /\ cliPc = "shell"
    /\ cliPc' = "exited"
    /\ argv'.command \in {"accounts add", "accounts upgrade"}
    /\ \E i \in 1..Len(calls') : calls'[i].to = "flow"
    /\ ~argv'.authorized

\* C35: when the flow run by "accounts add" or "accounts upgrade" fails, the
\* command exits with status 1 and the account records (there or not, with
\* their scope lists) and the default account are what they were.
C35_FailedAuthorizationChangesNothing ==
    [][AuthorizationFailed
        => /\ exitCode' = 1
           /\ accounts' = accounts
           /\ defaultAccount' = defaultAccount
      ]_vars

\* C35 witness: "accounts add b@example.com" on a store without accounts ran
\* the flow, which failed; b@example.com has no record and there is no
\* default account.
C35_Witness ==
    /\ cliPc = "exited"
    /\ argv.command = "accounts add"
    /\ argv.account = "b@example.com"
    /\ ~argv.authorized
    /\ calls = <<ServiceCall("addGmailAccount", "b@example.com",
                    GmailOAuthOptions({"scopes", "includeGrantedScopes"},
                                      DEFAULT_GMAIL_SCOPES, FALSE, "")),
                 FlowCall(NoOptions, FALSE)>>
    /\ report.kind = "Authorization failed"
    /\ listAccounts(accounts) = {}
    /\ defaultAccount = NoEmail

\* C36, as stated: in one attempt at most one request is sent to the token
\* endpoint, however many callbacks reach the listener and whether or not an
\* exchange is still in flight when they do.  (A manual attempt reads one
\* pasted URL, so only an interactive attempt can send more.)
C36_OneExchangePerAttempt ==
    \A a \in Attempts : tokenCalls[a] <= 1

\* C37: once an attempt is settled, no later event (a callback, the timeout,
\* a listener error, a token exchange that returns) changes what authorize()
\* gave back for it; and no event other than the start of an attempt puts a
\* state token or a verifier back: each of the two stays as it is or is
\* forgotten.
C37_FirstConcludingEventDecides ==
    [][/\ \A a \in Attempts : results[a].settled => results'[a] = results[a]
       /\ (attempt' = attempt /\ pc # "binding")
            => /\ expectedState' \in {expectedState, Null}
               /\ codeVerifier' \in {codeVerifier, Null}
      ]_vars

\* C37 witness: the first attempt, an interactive one, sent a code to the
\* token endpoint, timed out while the exchange was in flight, and the
\* exchange has come back since: the outcome is still the timeout and
\* there is no state token or verifier.
C37_Witness ==
    /\ attempt = 1
    /\ ~manual
    /\ tokenCalls[1] = 1
    /\ inflight = {}
    /\ results[1].settled
    /\ results[1].error = "Authorization timed out"
    /\ expectedState = Null
    /\ codeVerifier = Null

\* C38: through any sequence of "accounts add", "accounts upgrade",
\* "accounts remove" and "config default" commands the default account is
\* not set or names an account that has a record; "config default" for an
\* e-mail without a record fails and leaves it as it was, the first account
\* added to an empty store becomes the default, and removing the default
\* account clears it.
C38_DefaultNamesRegisteredAccount ==
    /\ []DefaultNamesAccount(accounts, defaultAccount)
    /\ [][(cliPc = "shell" /\ cliPc' = "exited" /\ argv'.account \in Emails)
            => /\ (argv'.command = "config default"
                        /\ ~accounts[argv'.account].registered)
                    => /\ exitCode' = 1
                       /\ defaultAccount' = defaultAccount
               /\ (argv'.command = "accounts add" /\ exitCode' = 0
                        /\ listAccounts(accounts) = {})
                    => defaultAccount' = argv'.account
               /\ (argv'.command = "accounts remove"
                        /\ defaultAccount = argv'.account)
                    => defaultAccount' = NoEmail
          ]_vars

\* C38 witness: "accounts remove b@example.com" removed the default account,
\* which had been added to an empty store, and no default account is set.
C38_Witness ==
    /\ cliPc = "exited"
    /\ argv.command = "accounts remove"
    /\ argv.account = "b@example.com"
    /\ report.kind = "Removed (was default)"
    /\ listAccounts(accounts) = {}
    /\ defaultAccount = NoEmail

\* what the process did, as main() gives it
Ran == [exitCode |-> exitCode, report |-> report, calls |-> calls]

\* C39: a "labels" command whose --add list has no dangerous label is not
\* refused by the guard, whatever its --remove list and with or without the
\* override; the same command line with the override switched the other way
\* does the same unless one of the two is refused by the guard; and with the
\* override a label of --add that does not exist still ends the command with
\* "Label(s) not found" before any thread is modified.
C39_GuardOnAdditionsOnly ==
    (cliPc = "exited" /\ argv.command = "labels")
        => LET refused == report.kind = "Refusing to add label(s)"
               other == main([argv EXCEPT !.allow = ~argv.allow])
           IN /\ dangerousRequested(argv.add) = <<>> => ~refused
              /\ argv.allow => ~refused
              /\ \/ other = Ran
                 \/ refused
                 \/ other.report.kind = "Refusing to add label(s)"
              /\ (missingRequested(argv.add) # <<>> /\ ~refused
                    /\ hasGmailClient(getAccount(argv.account).account))
                    => /\ exitCode = 1
                       /\ report.kind = "Label(s) not found"
                       /\ CallsOf("service", "modifyLabels") = <<>>

\* C39 witness: "labels 1 --add Work --remove TRASH" without the override
\* was not refused and modified the thread.
C39_Witness ==
    /\ cliPc = "exited"
    /\ argv.command = "labels"
    /\ argv.add = <<Str("work", "mixed", FALSE)>>
    /\ argv.remove = <<Str("trash", "upper", FALSE)>>
    /\ ~argv.allow
    /\ exitCode = 0
    /\ report.kind = "results"
    /\ Len(CallsOf("service", "modifyLabels")) = 1

====
